---- MODULE Spec2Model ----
(***************************************************************************)
(* Model of src/supervive_service.py: the DiskCache (absolute and sliding  *)
(* expirations, persisted by an atomic replace) and the SuperviveService   *)
(* operations that use it.                                                 *)
(*                                                                         *)
(* Time is the value returned by _now() (seconds).  Every call of _now()   *)
(* is an input of the operation that makes it: the wall clock is read      *)
(* afresh at each call and is not assumed monotonic.                       *)
(*                                                                         *)
(* Python's None is the string "None": DiskCache.get returns it both for   *)
(* an absent entry and for an entry whose stored value is JSON null.       *)
(***************************************************************************)
EXTENDS Integers, Sequences, FiniteSets, TLC

VARIABLES
    mem,      \* DiskCache._data of the running process
    store,    \* content of the file at DiskCache.path
    tmp,      \* content of the file at DiskCache.path + ".tmp"
    pc,       \* "running", or "crashed" once the process was stopped
    origin,   \* history: per key, the set_* call that created the entry
    lastOp,   \* history: the last operation, its inputs and its outcome
    peer      \* _data and position of a second process on the same path

vars == <<mem, store, tmp, pc, origin, lastOp, peer>>

----------------------------------------------------------------------------
(* Bounds of the model *)

MaxTime == 2
MaxTtl == 2

(* Clock readings and ttl arguments of the DiskCache-level operations: a   *)
(* ttl of 0 (expired at once, never renewed) and a positive one            *)
Times == 0..MaxTime
Ttls == {0, MaxTtl}

None == "None"
Queries == {"q1", "q2"}
SearchKey(query) == "search:" \o query

\* a str as the sequence of its characters
RECURSIVE Str(_)
Str(chars) == IF chars = <<>> THEN "" ELSE Head(chars) \o Str(Tail(chars))

Platforms == {"steam"}
\* match ids that differ only in hyphens
MatchIds == {<<"m", "-", "1">>, <<"m", "1">>}
\* a key that drops the hyphens of the match id
MatchKeyNormalized(platform, match_id) ==
    "match:" \o platform \o ":" \o Str(SelectSeq(match_id, LAMBDA c : c # "-"))
\* get_match, line 184: key = f"match:{platform}:{match_id}"
MatchKey(platform, match_id) == "match:" \o platform \o ":" \o Str(match_id)

Keys ==
    {SearchKey(q) : q \in Queries}
    \cup {MatchKey(p, m) : p \in Platforms, m \in MatchIds}
\* the keys the DiskCache-level operations are called with
CacheKeys == {SearchKey("q1")}
Values == {None, "v1"}

----------------------------------------------------------------------------
(* JSON documents and cache entries *)

Absent == [kind |-> "absent"]
\* an entry that is not a record and is truthy, such as the number 5
Scalar == [kind |-> "scalar"]
\* an entry that is falsy, such as {} or 0
Falsy == [kind |-> "falsy"]
Entry(v, e, s, st) ==
    [kind |-> "entry", value |-> v, expires_at |-> e, sliding |-> s, sliding_ttl |-> st]

EmptyMap == [k \in Keys |-> Absent]
MapDoc(m) == [kind |-> "map", m |-> m]
\* parseable JSON that is not an object, such as []
ListDoc == [kind |-> "list"]
NoFile == [kind |-> "missing"]
Unreadable == [kind |-> "unreadable"]
\* not parseable as JSON: an empty or truncated document
Garbage == [kind |-> "garbage"]
\* the temporary file after json.dump wrote the whole of _data and the file was
\* closed; its content is read by nothing but the os.replace that follows
Complete == [kind |-> "complete"]

IsEntry(x) == x.kind = "entry"

\* DiskCache._load
load(file) ==
    IF file.kind = "missing" THEN MapDoc(EmptyMap)
    ELSE IF file.kind \in {"unreadable", "garbage"} THEN MapDoc(EmptyMap)
    ELSE file

----------------------------------------------------------------------------
(* DiskCache._save: every way a call can end.  end = "ok" is a normal      *)
(* return, "raise" an OSError out of open, of the write or of os.replace,  *)
(* "kill" the process stopped at that point.  io: an I/O error occurred.   *)
(* env: what the environment may do during the call, a subset of           *)
(* {"raise", "kill"}.                                                      *)

SaveEnd(e, x, s, t) ==
    [end |-> e, exc |-> x, store |-> s, tmp |-> t, io |-> (x = "OSError")]

\* a save that writes the canonical path in place, without temporary file
save_in_place(data, file, tmpfile, env) ==
    {SaveEnd("ok", None, data, tmpfile)}
    \cup (IF "raise" \in env
          THEN {SaveEnd("raise", "OSError", file, tmpfile),
                SaveEnd("raise", "OSError", Garbage, tmpfile)}
          ELSE {})
    \cup (IF "kill" \in env
          THEN {SaveEnd("kill", None, file, tmpfile),
                SaveEnd("kill", None, Garbage, tmpfile),
                SaveEnd("kill", None, data, tmpfile)}
          ELSE {})

\* a save that writes the temporary file and never renames it
save_no_replace(data, file, tmpfile, env) ==
    {SaveEnd("ok", None, file, Complete)}
    \cup (IF "raise" \in env
          THEN {SaveEnd("raise", "OSError", file, tmpfile),
                SaveEnd("raise", "OSError", file, Garbage)}
          ELSE {})
    \cup (IF "kill" \in env
          THEN {SaveEnd("kill", None, file, tmpfile),
                SaveEnd("kill", None, file, Garbage),
                SaveEnd("kill", None, file, Complete)}
          ELSE {})

\* a save whose I/O errors are caught and dropped
save_swallowing(data, file, tmpfile, env) ==
    {SaveEnd("ok", None, data, NoFile)}
    \cup (IF "raise" \in env
          THEN {[SaveEnd("ok", None, file, t) EXCEPT !.io = TRUE]
                  : t \in {tmpfile, Garbage, Complete}}
          ELSE {})
    \cup (IF "kill" \in env
          THEN {SaveEnd("kill", None, file, tmpfile),
                SaveEnd("kill", None, file, Garbage),
                SaveEnd("kill", None, file, Complete),
                SaveEnd("kill", None, data, NoFile)}
          ELSE {})

save(data, file, tmpfile, env) ==
    {SaveEnd("ok", None, data, NoFile)}
    \cup (IF "raise" \in env
          THEN {SaveEnd("raise", "OSError", file, tmpfile),  \* open(tmp, "w") fails
                SaveEnd("raise", "OSError", file, Garbage),  \* json.dump fails part way
                SaveEnd("raise", "OSError", file, Complete)} \* os.replace fails
          ELSE {})
    \cup (IF "kill" \in env
          THEN {SaveEnd("kill", None, file, tmpfile),   \* before open
                SaveEnd("kill", None, file, Garbage),   \* tmp truncated or partly written
                SaveEnd("kill", None, file, Complete),  \* tmp complete, not yet renamed
                SaveEnd("kill", None, data, NoFile)}    \* after os.replace
          ELSE {})

----------------------------------------------------------------------------
(* Outcome of a DiskCache operation: the new _data, the files, how the     *)
(* call ended, its return value, the readings of _now() (t at the expiry   *)
(* check or at the set, t2 at the renewal) and the branch taken.           *)

Out(m, sv, r, t1, t2, p) ==
    [mem |-> m, store |-> sv.store, tmp |-> sv.tmp, end |-> sv.end, exc |-> sv.exc,
     io |-> sv.io, res |-> IF sv.end = "ok" THEN r ELSE None,
     t |-> t1, t2 |-> t2, path |-> p]

\* no save is called: the files stay as they are
Return(file, tmpfile) == SaveEnd("ok", None, file, tmpfile)
Raise(x, file, tmpfile) == [SaveEnd("raise", x, file, tmpfile) EXCEPT !.io = FALSE]

\* an expiry test that lets the deadline itself pass
ExpiredStrictly(item, t) == t > item.expires_at
\* get, line 68: _now() >= expires_at
Expired(item, t) == t >= item.expires_at

\* a renewal that does not look at the policy
RenewsAny(item) == TRUE
\* get, lines 72-75: the entry is sliding and its ttl is positive
Renews(item) == item.sliding /\ item.sliding_ttl > 0

\* a renewal counted from the old deadline, not from the clock
RenewedFromDeadline(item, t2) ==
    [item EXCEPT !.expires_at = item.expires_at + item.sliding_ttl]
\* get, line 76: item["expires_at"] = _now() + ttl
RenewedAt(item, t2) == [item EXCEPT !.expires_at = t2 + item.sliding_ttl]

\* an eviction that leaves the entry in _data
Kept(m, key) == m
\* an eviction that empties _data
Cleared(m, key) == [k \in DOMAIN m |-> Absent]
\* get, line 69: self._data.pop(key, None)
Popped(m, key) == [m EXCEPT ![key] = Absent]

\* DiskCache.get
get(data, file, tmpfile, key, times, env) ==
    IF data.kind # "map"
    THEN {Out(data, Raise("AttributeError", file, tmpfile), None, 0, 0, "bad")}
    ELSE LET item == data.m[key] IN
      IF item.kind \in {"absent", "falsy"}
      THEN {Out(data, Return(file, tmpfile), None, 0, 0, "miss")}
      ELSE IF item.kind # "entry"
      THEN {Out(data, Raise("AttributeError", file, tmpfile), None, 0, 0, "bad")}
      ELSE UNION {
        IF Expired(item, t)
        THEN LET d == MapDoc(Popped(data.m, key)) IN
             {Out(d, sv, None, t, t, "evict") : sv \in save(d, file, tmpfile, env)}
        ELSE IF Renews(item)
        THEN UNION {
               LET d == MapDoc([data.m EXCEPT ![key] = RenewedAt(item, t2)]) IN
               {Out(d, sv, item.value, t, t2, "renew")
                  : sv \in save(d, file, tmpfile, env)}
               : t2 \in times}
        ELSE {Out(data, Return(file, tmpfile), item.value, t, t, "hit")}
        : t \in times}

\* a set_absolute that updates the fields of an existing entry and leaves the others
MergedAbsolute(old, value, expires_at) ==
    IF IsEntry(old)
    THEN [old EXCEPT !.value = value, !.expires_at = expires_at]
    ELSE Entry(value, expires_at, FALSE, 0)
\* set_absolute, lines 81-86: the record that replaces whatever the key held
AbsoluteEntry(old, value, expires_at) == Entry(value, expires_at, FALSE, 0)

\* set_sliding, lines 90-95
SlidingEntry(old, value, expires_at, ttl_seconds) ==
    Entry(value, expires_at, TRUE, ttl_seconds)

\* DiskCache.set_absolute
set_absolute(data, file, tmpfile, key, value, ttl_seconds, times, env) ==
    IF data.kind # "map"
    THEN {Out(data, Raise("TypeError", file, tmpfile), None, 0, 0, "bad")}
    ELSE UNION {
      LET d == MapDoc([data.m EXCEPT ![key] =
                          AbsoluteEntry(@, value, t + ttl_seconds)]) IN
      {Out(d, sv, None, t, t, "set") : sv \in save(d, file, tmpfile, env)}
      : t \in times}

\* DiskCache.set_sliding
set_sliding(data, file, tmpfile, key, value, ttl_seconds, times, env) ==
    IF data.kind # "map"
    THEN {Out(data, Raise("TypeError", file, tmpfile), None, 0, 0, "bad")}
    ELSE UNION {
      LET d == MapDoc([data.m EXCEPT ![key] =
                          SlidingEntry(@, value, t + ttl_seconds, ttl_seconds)]) IN
      {Out(d, sv, None, t, t, "set") : sv \in save(d, file, tmpfile, env)}
      : t \in times}

----------------------------------------------------------------------------
(* History.  origin[key] names the set_* call that created the entry of    *)
(* key in this process (op "none": no such call; "evicted": a get removed   *)
(* the entry and no set followed)                                          *)
(* with its arguments and the reading t of _now(): at the set and, for an  *)
(* entry created by set_sliding, at each later renewal.  lastOp is the     *)
(* last call: its name, key, outcome, whether an I/O error occurred in it   *)
(* (io), the policy of the entry that a set replaced (over) and the number *)
(* of HTTP requests it issued (http); for an operation of the service, its *)
(* use_cache argument and the branch its cache lookup took (lookup).       *)

NoOrigin == [op |-> "none", ttl |-> 0, value |-> None, t |-> 0]
EvictedOrigin == [NoOrigin EXCEPT !.op = "evicted"]
Origin(op, t, ttl, v) == [op |-> op, ttl |-> ttl, value |-> v, t |-> t]

\* what _data holds under key
ItemOf(data, key) == IF data.kind = "map" THEN data.m[key] ELSE Absent

PolicyOf(item) ==
    IF ~IsEntry(item) THEN "none" ELSE IF item.sliding THEN "sliding" ELSE "absolute"

Op(name, key, o, old) ==
    IF o.end = "kill"
    THEN [op |-> name, key |-> key, end |-> o.end, exc |-> None, res |-> None,
          io |-> FALSE, t |-> 0, t2 |-> 0, path |-> o.path, over |-> "none",
          http |-> 0, use_cache |-> TRUE, lookup |-> "none"]
    ELSE [op |-> name, key |-> key, end |-> o.end, exc |-> o.exc, res |-> o.res,
          io |-> o.io, t |-> o.t, t2 |-> o.t2, path |-> o.path, over |-> PolicyOf(old),
          http |-> 0, use_cache |-> TRUE, lookup |-> "none"]

NoOp ==
    Op("init", None, Out(MapDoc(EmptyMap), Return(NoFile, NoFile), None, 0, 0, "none"),
       Absent)

\* an operation that restores _data when it raises
FinishRollingBack(o) ==
    /\ mem' = IF o.end = "raise" THEN mem ELSE o.mem
    /\ store' = o.store
    /\ tmp' = o.tmp
    /\ pc' = IF o.end = "kill" THEN "crashed" ELSE "running"
    /\ peer' = peer

\* the process state after an operation that ended as o did; the _data of a
\* stopped process is kept as the document its last save was writing
Finish(o) ==
    /\ mem' = o.mem
    /\ store' = o.store
    /\ tmp' = o.tmp
    /\ pc' = IF o.end = "kill" THEN "crashed" ELSE "running"
    /\ peer' = peer

\* under Spec the file system may fail any write or rename, and the process may
\* be stopped at any point of a save
CacheEnv == {"raise", "kill"}

----------------------------------------------------------------------------
(* Initial states: the store file is in any state when DiskCache is        *)

(* constructed; __init__ has run _load.                                    *)

\* no second process
NoPeer == [mem |-> [kind |-> "none"], pc |-> "none"]

InitEntries ==
    {Absent, Scalar, Falsy, Entry("v1", 1, FALSE, 0), Entry("v1", 1, TRUE, MaxTtl)}

InitStores ==
    {NoFile, Unreadable, Garbage, ListDoc}
    \cup {MapDoc([k \in Keys |-> IF k \in CacheKeys THEN e ELSE Absent])
            : e \in InitEntries}
    \cup {MapDoc([k \in Keys |-> Entry("v1", 0, FALSE, 0)])}

Init ==
    /\ store \in InitStores
    /\ tmp \in {NoFile, Garbage}
    /\ mem = load(store)
    /\ pc = "running"
    /\ origin = [k \in Keys |-> NoOrigin]
    /\ lastOp = NoOp
    /\ peer = NoPeer

----------------------------------------------------------------------------
(* Operations of DiskCache, called by the running process *)

GetOn(keys, times) ==
    /\ pc = "running"
    /\ \E key \in keys :
         \E o \in get(mem, store, tmp, key, times, CacheEnv) :
           /\ Finish(o)
           /\ origin' = [origin EXCEPT ![key] =
                           IF o.path = "evict" THEN EvictedOrigin
                           ELSE IF o.path = "renew" /\ @.op = "set_sliding"
                           THEN [@ EXCEPT !.t = o.t2]
                           ELSE @]
           /\ lastOp' = Op("get", key, o, Absent)

Get == GetOn(CacheKeys, Times)

SetAbsoluteOn(keys, values, ttls, times) ==
    /\ pc = "running"
    /\ \E key \in keys, value \in values, ttl \in ttls :
         \E o \in set_absolute(mem, store, tmp, key, value, ttl, times, CacheEnv) :
           /\ Finish(o)
           /\ origin' = [origin EXCEPT ![key] =
                           IF o.path = "set"
                           THEN Origin("set_absolute", o.t, ttl, value)
                           ELSE @]
           /\ lastOp' = Op("set_absolute", key, o, ItemOf(mem, key))

SetAbsolute == SetAbsoluteOn(CacheKeys, Values, Ttls, Times)

SetSlidingOn(keys, values, ttls, times) ==
    /\ pc = "running"
    /\ \E key \in keys, value \in values, ttl \in ttls :
         \E o \in set_sliding(mem, store, tmp, key, value, ttl, times, CacheEnv) :
           /\ Finish(o)
           /\ origin' = [origin EXCEPT ![key] =
                           IF o.path = "set"
                           THEN Origin("set_sliding", o.t, ttl, value)
                           ELSE @]
           /\ lastOp' = Op("set_sliding", key, o, ItemOf(mem, key))

SetSliding == SetSlidingOn(CacheKeys, Values, Ttls, Times)

\* a new process constructs DiskCache on the same path (__init__ and _load); the
\* history of a key is kept when the file holds the entry the old process held
Restart ==
    /\ mem' = load(store)
    /\ pc' = "running"
    /\ origin' = [k \in Keys |->
                    IF ItemOf(load(store), k) = ItemOf(mem, k) THEN origin[k] ELSE NoOrigin]
    /\ lastOp' = [NoOp EXCEPT !.op = "restart"]
    /\ UNCHANGED <<store, tmp, peer>>

Next == Get \/ SetAbsolute \/ SetSliding \/ Restart

Spec == Init /\ [][Next]_vars

\* the same process calling the operations with two keys
TwoKeys == {SearchKey("q1"), SearchKey("q2")}
NextKeys ==
    \/ GetOn(TwoKeys, {1, MaxTime})
    \/ SetAbsoluteOn(TwoKeys, {"v1"}, {MaxTtl}, {0})
    \/ SetSlidingOn(TwoKeys, {"v1"}, {MaxTtl}, {0})
    \/ Restart
SpecKeys == Init /\ [][NextKeys]_vars

----------------------------------------------------------------------------
(* Two processes, A and B, on one cache path.  Each loaded the store when  *)
(* it was constructed and keeps its own _data; the store file and the      *)
(* temporary file are shared.  _save is followed statement by statement:   *)
(* the temporary file is written (lines 58-60), then renamed (line 61).    *)
(* mem and pc are those of A, peer holds those of B.                       *)

Procs == {"A", "B"}

DataOf(p) == IF p = "A" THEN mem ELSE peer.mem
PcOf(p) == IF p = "A" THEN pc ELSE peer.pc

\* the key each process works on
KeyOf(p) == IF p = "A" THEN SearchKey("q1") ELSE SearchKey("q2")

\* process p has _data d and is at position x; the other process is as it was
Becomes(p, d, x) ==
    IF p = "A"
    THEN mem' = d /\ pc' = x /\ peer' = peer
    ELSE peer' = [mem |-> d, pc |-> x] /\ UNCHANGED <<mem, pc>>

\* a save that writes the entries of the store file along with its own
written_merged(data, file) ==
    IF data.kind = "map" /\ file.kind = "map"
    THEN MapDoc([k \in Keys |-> IF data.m[k] # Absent THEN data.m[k] ELSE file.m[k]])
    ELSE data
\* line 60: json.dump(self._data, f)
written(data, file) == data

\* the branches of get and set_* that change _data and call _save
Mutating == {"evict", "renew", "set"}

\* the cache operations of process p that change its _data
Mutations(p) ==
    {o \in get(DataOf(p), store, tmp, KeyOf(p), Times, {})
          \cup set_absolute(DataOf(p), store, tmp, KeyOf(p), "v1", MaxTtl, Times, {})
          \cup set_sliding(DataOf(p), store, tmp, KeyOf(p), "v1", MaxTtl, Times, {})
       : o.path \in Mutating /\ o.end = "ok"}

\* history of a step of a process
SharedOp(name, p, end, exc) ==
    [op |-> name, proc |-> p, key |-> KeyOf(p), end |-> end, exc |-> exc]

\* process p changes its _data in a get, set_absolute or set_sliding and
\* _save writes the temporary file
WriteTmp(p) ==
    /\ PcOf(p) = "running"
    /\ \E o \in Mutations(p) :
         /\ Becomes(p, o.mem, "replacing")
         /\ tmp' = written(o.mem, store)
    /\ lastOp' = SharedOp("write", p, "pending", None)
    /\ UNCHANGED <<store, origin>>

\* line 61: os.replace(tmp, self.path): the temporary file, whoever wrote it
\* last, becomes the store file; os.replace raises when the file is not there.
\* origin records the process whose new entry the store file now holds.
Replace(p) ==
    /\ PcOf(p) = "replacing"
    /\ Becomes(p, DataOf(p), "running")
    /\ IF tmp = NoFile
       THEN /\ lastOp' = SharedOp("replace", p, "raise", "OSError")
            /\ UNCHANGED <<store, tmp, origin>>
       ELSE /\ store' = tmp
            /\ tmp' = NoFile
            /\ origin' = [k \in Keys |->
                            IF /\ tmp = DataOf(p)
                               /\ k = KeyOf(p)
                               /\ IsEntry(ItemOf(tmp, k))
                               /\ ItemOf(tmp, k) # ItemOf(store, k)
                            THEN Origin("persisted", 0, 0, p)
                            ELSE origin[k]]
            /\ lastOp' = SharedOp("replace", p, "ok", None)

\* the store file when both processes are constructed: none, a sliding entry
\* for the key of B, or expired entries
SharedStores ==
    {NoFile,
     MapDoc([k \in Keys |-> IF k = KeyOf("B") THEN Entry("v1", 1, TRUE, MaxTtl)
                            ELSE Absent]),
     MapDoc([k \in Keys |-> Entry("v1", 0, FALSE, 0)])}

InitShared ==
    /\ store \in SharedStores
    /\ tmp = NoFile
    /\ mem = load(store)
    /\ pc = "running"
    /\ peer = [mem |-> load(store), pc |-> "running"]
    /\ origin = [k \in Keys |-> NoOrigin]
    /\ lastOp = NoOp

NextShared == \E p \in Procs : WriteTmp(p) \/ Replace(p)

SpecShared == InitShared /\ [][NextShared]_vars

----------------------------------------------------------------------------
(* SuperviveService.  An operation is one action: the cache lookup, the    *)
(* HTTP call and the cache write, each ending in any of its ways.          *)

MaxSkew == 1

\* search_players, line 180: ttl_seconds=7 * 24 * 3600
SearchTtl == 7 * 24 * 3600

\* seven days, in seconds
SevenDays == 604800

\* clock readings of the service operations: near 0 and near seven days later
SvcTimes == (0..MaxSkew) \cup {SevenDays + d : d \in -1..MaxSkew}

\* the body [] (or {}): a value that is falsy in Python and is not None
EmptyList == "[]"
\* JSON bodies of the upstream replies
Payloads == {None, EmptyList, "v1"}

\* self._get(..), res.raise_for_status() and res.json(): the call raises (the
\* transport gave up, or the final status is an error), or yields the body
HttpReplies ==
    {[kind |-> "raise", exc |-> x, body |-> None] : x \in {"RequestException", "HTTPError"}}
    \cup {[kind |-> "ok", exc |-> None, body |-> b] : b \in Payloads}

\* a failed HTTP call that is taken for an empty result
http_swallowed(g, r) == g
\* lines 176-177, 189-190: self._get(..) or res.raise_for_status() raises and
\* nothing catches it: the operation ends there, after its cache lookup g
http_failed(g, r) == [g EXCEPT !.end = "raise", !.exc = r.exc]

\* outcome of a service operation: g is its cache lookup, last the call it ended
\* in; stored: that call was a set_* that put the entry into _data
Svc(g, last, r, body, n, p) ==
    [mem |-> last.mem, store |-> last.store, tmp |-> last.tmp,
     end |-> last.end, exc |-> last.exc, io |-> (g.io \/ last.io),
     res |-> IF last.end = "ok" THEN r ELSE None, body |-> body,
     t |-> g.t, t2 |-> last.t, path |-> p, lookup |-> g.path, http |-> n,
     stored |-> (last.path = "set")]

\* a search result stored with a sliding expiration
store_search_sliding(data, file, tmpfile, key, value, times, env) ==
    set_sliding(data, file, tmpfile, key, value, SearchTtl, times, env)
\* search_players, line 180
store_search(data, file, tmpfile, key, value, times, env) ==
    set_absolute(data, file, tmpfile, key, value, SearchTtl, times, env)

\* a test that takes every falsy value for a miss: if cached
is_truthy(cached) == cached \notin {None, EmptyList}
\* search_players, line 172, and get_match, line 186: if cached is not None
is_not_none(cached) == cached # None

\* a lookup that reads the cache whatever use_cache says
cache_lookup_always(data, file, tmpfile, key, use_cache, times, env) ==
    get(data, file, tmpfile, key, times, env)
\* search_players, lines 170-173: the cache is read only if use_cache
cache_lookup(data, file, tmpfile, key, use_cache, times, env) ==
    IF use_cache
    THEN get(data, file, tmpfile, key, times, env)
    ELSE {Out(data, Return(file, tmpfile), None, 0, 0, "skip")}

\* SuperviveService.search_players
search_players(data, file, tmpfile, query, use_cache, times, env) ==
    LET key == SearchKey(query)
        lookups == cache_lookup(data, file, tmpfile, key, use_cache, times, env)
    IN UNION {
         IF g.end # "ok"
         THEN {Svc(g, g, None, None, 0, "cache_error")}
         ELSE IF is_not_none(g.res)
         THEN {Svc(g, g, g.res, None, 0, "cached")}
         ELSE UNION {
                IF r.kind # "ok"
                THEN {Svc(g, http_failed(g, r), None, None, 1, "http_error")}
                ELSE {Svc(g, s, r.body, r.body, 1, "fetched")
                        : s \in store_search(g.mem, g.store, g.tmp, key, r.body,
                                             times, env)}
                : r \in HttpReplies}
         : g \in lookups}

SvcOp(name, key, use_cache, o) ==
    IF o.end = "kill"
    THEN [op |-> name, key |-> key, end |-> o.end, exc |-> None, res |-> None,
          io |-> FALSE, t |-> 0, t2 |-> 0, path |-> o.path, over |-> "none",
          http |-> o.http, use_cache |-> use_cache, lookup |-> o.lookup]
    ELSE [op |-> name, key |-> key, end |-> o.end, exc |-> o.exc, res |-> o.res,
          io |-> o.io, t |-> o.t, t2 |-> o.t2, path |-> o.path, over |-> "none",
          http |-> o.http, use_cache |-> use_cache, lookup |-> o.lookup]

\* under SpecService the file system does not fail and the process is not
\* stopped during a save; it may end after any operation (Restart)
ServiceEnv == {}

\* a call of search_players with its query drawn from queries and its clock
\* readings from times
SearchPlayersOf(queries, times) ==
    /\ pc = "running"
    /\ \E query \in queries, use_cache \in BOOLEAN :
         \E o \in search_players(mem, store, tmp, query, use_cache, times,
                                 ServiceEnv) :
           /\ Finish(o)
           /\ origin' = [origin EXCEPT ![SearchKey(query)] =
                           IF o.stored
                           THEN Origin("set_absolute", o.t2, SearchTtl, o.body)
                           ELSE IF o.lookup = "evict" THEN EvictedOrigin
                           ELSE IF o.lookup = "renew" /\ @.op = "set_sliding"
                           THEN [@ EXCEPT !.t = o.t2]
                           ELSE @]
           /\ lastOp' = SvcOp("search_players", SearchKey(query), use_cache, o)

SearchPlayers == SearchPlayersOf(Queries, SvcTimes)

NextService == SearchPlayers \/ Restart

SpecService == Init /\ [][NextService]_vars

----------------------------------------------------------------------------
(* SuperviveService.get_match *)

\* get_match, line 194: ttl_seconds=15 * 24 * 3600
MatchTtl == 15 * 24 * 3600

\* fifteen days, in seconds
FifteenDays == 1296000

\* clock readings of get_match: near 0 and near fifteen days later
MatchTimes == (0..MaxSkew) \cup {FifteenDays + d : d \in -1..MaxSkew}

\* get_match, line 189: f"api/matches/{platform}-{match_id}"
MatchPath(platform, match_id) == "api/matches/" \o platform \o "-" \o Str(match_id)

\* a match stored with an absolute expiration
store_match_absolute(data, file, tmpfile, key, value, times, env) ==
    set_absolute(data, file, tmpfile, key, value, MatchTtl, times, env)
\* get_match, line 194
store_match(data, file, tmpfile, key, value, times, env) ==
    set_sliding(data, file, tmpfile, key, value, MatchTtl, times, env)

\* SuperviveService.get_match; reqs: the paths of the HTTP requests it issued
get_match(data, file, tmpfile, platform, match_id, times, env) ==
    LET key == MatchKey(platform, match_id)
        path == MatchPath(platform, match_id)
        With(o, reqs) == [mem |-> o.mem, store |-> o.store, tmp |-> o.tmp,
                          end |-> o.end, exc |-> o.exc, io |-> o.io, res |-> o.res,
                          body |-> o.body, t |-> o.t, t2 |-> o.t2, path |-> o.path,
                          lookup |-> o.lookup, http |-> o.http, stored |-> o.stored,
                          key |-> key, reqs |-> reqs]
    IN UNION {
         IF g.end # "ok"
         THEN {With(Svc(g, g, None, None, 0, "cache_error"), <<>>)}
         ELSE IF is_not_none(g.res)
         THEN {With([Svc(g, g, g.res, None, 0, "cached") EXCEPT !.t2 = g.t2], <<>>)}
         ELSE UNION {
                IF r.kind # "ok"
                THEN {With(Svc(g, http_failed(g, r), None, None, 1, "http_error"),
                           <<path>>)}
                ELSE {With(Svc(g, s, r.body, r.body, 1, "fetched"), <<path>>)
                        : s \in store_match(g.mem, g.store, g.tmp, key, r.body,
                                            times, env)}
                : r \in HttpReplies}
         : g \in get(data, file, tmpfile, key, times, env)}

\* history: the last get_match call; t is the reading of its cache lookup, t2
\* the reading at which the entry was renewed or stored
MatchOp(platform, match_id, o) ==
    [op |-> "get_match", key |-> o.key, end |-> o.end, exc |-> o.exc, res |-> o.res,
     io |-> o.io, t |-> o.t, t2 |-> o.t2, path |-> o.path, over |-> "none",
     http |-> o.http, use_cache |-> TRUE, lookup |-> o.lookup,
     platform |-> platform, match_id |-> match_id, reqs |-> o.reqs]

\* a call of get_match with its match id drawn from ids and its clock readings
\* from times
GetMatchOf(ids, times) ==
    /\ pc = "running"
    /\ \E platform \in Platforms, match_id \in ids :
         \E o \in get_match(mem, store, tmp, platform, match_id, times, ServiceEnv) :
           /\ Finish(o)
           /\ origin' = [origin EXCEPT ![o.key] =
                           IF o.stored
                           THEN Origin("set_sliding", o.t2, MatchTtl, o.body)
                           ELSE IF o.lookup = "evict" THEN EvictedOrigin
                           ELSE IF o.lookup = "renew" /\ @.op = "set_sliding"
                           THEN [@ EXCEPT !.t = o.t2]
                           ELSE @]
           /\ lastOp' = MatchOp(platform, match_id, o)

\* under SpecMatch one match is read again and again, at every reading
GetMatch == GetMatchOf({<<"m", "-", "1">>}, MatchTimes)

\* under SpecMatchIds both match ids are read, at time 0 and fifteen days later

NextMatch == GetMatch \/ Restart

NextMatchIds == GetMatchOf(MatchIds, {0, FifteenDays}) \/ Restart

SpecMatch == Init /\ [][NextMatch]_vars

SpecMatchIds == Init /\ [][NextMatchIds]_vars

\* both cached operations in one process: one query and one match, read at
\* time 0 and at the end of their time to live

NextCached ==
    \/ SearchPlayersOf({"q1"}, {0, SevenDays})
    \/ GetMatchOf({<<"m", "1">>}, {0, FifteenDays})
    \/ Restart

SpecCached == Init /\ [][NextCached]_vars

----------------------------------------------------------------------------
(* The operations of SuperviveService that do not use the cache.  Each is  *)
(* a function of its arguments and of the replies of the upstream server;  *)
(* a command of the CLI makes one such call and the process ends.          *)

\* a call that drops the entries held in memory
ApiFrameDropping ==
    /\ mem' = MapDoc(EmptyMap)
    /\ UNCHANGED <<store, tmp, origin, peer>>
\* lines 156-166 and 197-260 do not refer to self.cache: _data, the store file
\* and its temporary file are as they were
ApiFrame == UNCHANGED <<mem, store, tmp, origin, peer>>

\* how a call ends: a return value, or the exception it raises
ApiReturn(r) == [end |-> "ok", exc |-> None, res |-> r]
ApiRaise(x) == [end |-> "raise", exc |-> x, res |-> None]

\* history: the last call of such an operation, with the player id or display
\* name (id), a further argument (arg), the replies received from upstream, in
\* order, and the paths requested, in order
ApiOp(name, platform, id, arg, replies, reqs, o) ==
    [op |-> name, platform |-> platform, id |-> id, arg |-> arg, replies |-> replies,
     reqs |-> reqs, end |-> o.end, exc |-> o.exc, res |-> o.res]

\* self._get(..), res.raise_for_status() and res.json() for a set of JSON
\* bodies: the call raises, the body is not JSON, or it is one of bodies
RepliesOf(bodies) ==
    {[kind |-> "raise", exc |-> x] : x \in {"RequestException", "HTTPError"}}
    \cup {[kind |-> "raise", exc |-> "JSONDecodeError"]}
    \cup {[kind |-> "ok", body |-> b] : b \in bodies}

\* a JSON document that is null, and one that is a list
JsonNull == [kind |-> "null"]
JsonList == [kind |-> "list"]

\* the value of a member of a JSON object: "absent" when the object has no
\* such member, None for null
Flags == {"absent", None, "false", "true"}

\* dict.get(k): None when the member is absent
dict_get(d, k) == IF d[k] = "absent" THEN None ELSE d[k]

\* Python's truth value of a flag
Truthy(x) == x = "true"

\* Python's `a or b`
PyOr(a, b) == IF Truthy(a) THEN a ELSE b

\* bodies of the reply to api/players/check
CheckBodies ==
    {JsonNull, JsonList}
    \cup {[kind |-> "dict", exists |-> a, Exists |-> b] : a \in Flags, b \in Flags}

\* an existence check that takes a missing flag for False
check_player_exists_default(reply) ==
    IF reply.kind = "raise" THEN ApiRaise(reply.exc)
    ELSE IF reply.body.kind # "dict" THEN ApiRaise("AttributeError")
    ELSE ApiReturn(IF Truthy(PyOr(dict_get(reply.body, "exists"),
                                  dict_get(reply.body, "Exists")))
                   THEN "True" ELSE "False")
\* SuperviveService.check_player_exists, given the reply to its request
check_player_exists(reply) ==
    IF reply.kind = "raise" THEN ApiRaise(reply.exc)
    ELSE IF reply.body.kind # "dict" THEN ApiRaise("AttributeError")
    ELSE LET exists == PyOr(dict_get(reply.body, "exists"),
                            dict_get(reply.body, "Exists")) IN
         IF exists = None
         THEN ApiRaise("ValueError")
         ELSE ApiReturn(IF Truthy(exists) THEN "True" ELSE "False")

DisplayNames == {<<"n", "#", "1">>}

CheckPlayerExists ==
    /\ pc = "running"
    /\ \E platform \in Platforms, name \in DisplayNames, reply \in RepliesOf(CheckBodies) :
         lastOp' = ApiOp("check_player_exists", platform, name, 0, <<reply>>,
                         <<"api/players/check">>, check_player_exists(reply))
    /\ pc' = "exited"
    /\ ApiFrame

----------------------------------------------------------------------------
(* get_player_matches and get_player_matches_pages *)

\* the largest page budget
MaxPages == 2

\* the pages argument: negative, zero and positive budgets
Budgets == -1..MaxPages

\* player ids that differ only in hyphens
PlayerIds == {<<"A", "-", "1">>, <<"A", "1">>}

\* a player id used as it is
verbatim(player_id) == player_id
\* lines 198, 228, 249: player_id.replace("-", "")
normalized(player_id) == SelectSeq(player_id, LAMBDA c : c # "-")

\* lines 199, 229: f"api/players/{platform}-{normalized}/matches"
MatchesPath(platform, player_id) ==
    "api/players/" \o platform \o "-" \o Str(normalized(player_id)) \o "/matches"

\* the "data" member of a page: absent, null, or a list of n items; the items
\* of page p are <<p, 1>>, .., <<p, n>>
NoData == [kind |-> "absent", items |-> <<>>]
NullData == [kind |-> "null", items |-> <<>>]
Data(p, n) == [kind |-> "list", items |-> [i \in 1..n |-> <<p, i>>]]

\* a count member of the metadata: absent (or null), or a number n >= 0
NoCount == [has |-> FALSE, n |-> 0]
Count(n) == [has |-> TRUE, n |-> n]

\* the "meta" member of a page: absent (or null), the empty object, or an
\* object with its last_page and lastPage members
NoMeta == [kind |-> "absent", last_page |-> NoCount, lastPage |-> NoCount]
EmptyMeta == [kind |-> "empty", last_page |-> NoCount, lastPage |-> NoCount]
Meta(a, b) == [kind |-> "dict", last_page |-> a, lastPage |-> b]

\* the counts a page p may report: none, zero, passed, reached, not reached
CountsAt(p) ==
    {NoCount, Count(0), Count(p), Count(p + 1)}
    \cup (IF p > 1 THEN {Count(p - 1)} ELSE {})

\* bodies of the reply to the request of page p
PageBodies(p) ==
    {JsonNull, JsonList}
    \cup {[kind |-> "dict", data |-> d, meta |-> m]
            : d \in {NoData, NullData, Data(p, 0), Data(p, 2)},
              m \in {NoMeta, EmptyMeta}
                    \cup {Meta(a, b) : a \in CountsAt(p), b \in CountsAt(p)}}

\* a single-page fetch that passes a null payload on
get_player_matches_lenient(reply) ==
    IF reply.kind = "raise" THEN ApiRaise(reply.exc) ELSE ApiReturn(reply.body)
\* SuperviveService.get_player_matches, given the reply to its request
get_player_matches(reply) ==
    IF reply.kind = "raise" THEN ApiRaise(reply.exc)
    ELSE IF reply.body.kind = "null" THEN ApiRaise("ValueError")
    ELSE ApiReturn(reply.body)

\* a request of get_player_matches: its path and its page parameter
PageRequest(platform, player_id, page) ==
    [path |-> MatchesPath(platform, player_id), page |-> page]

\* a loop test that allows one page more than the budget
InBudgetPlusOne(current_page, pages) == current_page <= pages + 1
\* line 213: while current_page <= pages
InBudget(current_page, pages) == current_page <= pages

\* an accumulation that puts the new items first
extend_front(all_items, items) == items \o all_items
\* line 216: all_items.extend(items)
extend(all_items, items) == all_items \o items

\* line 219: int(meta.get("last_page") or meta.get("lastPage") or 0)
last_page_of(meta) ==
    IF meta.last_page.has /\ meta.last_page.n # 0 THEN meta.last_page.n
    ELSE IF meta.lastPage.has /\ meta.lastPage.n # 0 THEN meta.lastPage.n
    ELSE 0

\* lines 212, 218-219: last_page after the page with meta was fetched; it starts
\* as None, which line 220 treats as it treats 0
last_page_after(meta, last_page) ==
    IF meta.kind = "dict" THEN last_page_of(meta) ELSE last_page

\* a loop that ignores the metadata
IgnoresLastPage(meta, last_page, current_page) == FALSE
\* a loop that applies the last count it has seen to pages without metadata
StopsAtKnownLastPage(meta, last_page, current_page) ==
    /\ last_page # 0
    /\ current_page >= last_page
\* lines 218-221: if meta: .. if last_page and current_page >= last_page: break
StopsAtLastPage(meta, last_page, current_page) ==
    /\ meta.kind = "dict"
    /\ last_page # 0
    /\ current_page >= last_page

\* a loop that goes on after a page without items
IgnoresEmpty(items) == FALSE
\* lines 222-223: if not items: break
StopsOnEmpty(items) == items = <<>>

\* how a multi-page call ends, with what it received and what it requested
PagesEnd(o, replies, reqs) ==
    [end |-> o.end, exc |-> o.exc, res |-> o.res, replies |-> replies, reqs |-> reqs]

\* the while loop of get_player_matches_pages from current_page on: every way it
\* can end, over the replies of the server to each request
RECURSIVE pages_loop(_, _, _, _, _, _, _, _)
pages_loop(platform, player_id, pages, current_page, last_page, all_items, replies, reqs) ==
    IF ~InBudget(current_page, pages)
    THEN {PagesEnd(ApiReturn(all_items), replies, reqs)}
    ELSE UNION {
      LET got == get_player_matches(reply)
          replies2 == Append(replies, reply)
          reqs2 == Append(reqs, PageRequest(platform, player_id, current_page))
      IN IF got.end # "ok"
         THEN {PagesEnd(got, replies2, reqs2)}
         ELSE LET payload == got.res
                  is_dict == payload.kind = "dict"
                  data == IF is_dict THEN payload.data ELSE NoData
                  meta == IF is_dict THEN payload.meta ELSE NoMeta
              IN IF data.kind = "null"
                 THEN {PagesEnd(ApiRaise("TypeError"), replies2, reqs2)}
                 ELSE LET all2 == extend(all_items, data.items)
                          last2 == last_page_after(meta, last_page)
                      IN
                      IF StopsAtLastPage(meta, last2, current_page)
                           \/ StopsOnEmpty(data.items)
                      THEN {PagesEnd(ApiReturn(all2), replies2, reqs2)}
                      ELSE pages_loop(platform, player_id, pages, current_page + 1,
                                      last2, all2, replies2, reqs2)
      : reply \in RepliesOf(PageBodies(current_page))}

\* SuperviveService.get_player_matches_pages
get_player_matches_pages(platform, player_id, pages) ==
    pages_loop(platform, player_id, pages, 1, 0, <<>>, <<>>, <<>>)

\* a call of get_player_matches_pages with a budget of budgets
GetPlayerMatchesPagesOf(budgets) ==
    /\ pc = "running"
    /\ \E platform \in Platforms, player_id \in PlayerIds, pages \in budgets :
         \E o \in get_player_matches_pages(platform, player_id, pages) :
           lastOp' = ApiOp("get_player_matches_pages", platform, player_id, pages,
                           o.replies, o.reqs, o)
    /\ pc' = "exited"
    /\ ApiFrame

GetPlayerMatchesPages == GetPlayerMatchesPagesOf(Budgets)

\* a call of get_player_matches for one page
GetPlayerMatches ==
    /\ pc = "running"
    /\ \E platform \in Platforms, player_id \in PlayerIds, page \in 1..MaxPages :
         \E reply \in RepliesOf(PageBodies(page)) :
           lastOp' = ApiOp("get_player_matches", platform, player_id, page, <<reply>>,
                           <<PageRequest(platform, player_id, page)>>,
                           get_player_matches(reply))
    /\ pc' = "exited"
    /\ ApiFrame

----------------------------------------------------------------------------
(* _get_xsrf_token and fetch_new_player_matches.  Header values are        *)
(* sequences of characters, the cookie name with its "=" and a             *)
(* percent-encoded character standing as one element each.                 *)

\* s in text, for sequences: Python's substring test
Contains(text, s) ==
    \E i \in 1..(Len(text) - Len(s) + 1) : SubSeq(text, i, i + Len(s) - 1) = s

\* a header of a response: absent, or present with a value
NoHeader == [has |-> FALSE, v |-> <<>>]
Header(v) == [has |-> TRUE, v |-> v]

\* status codes of the responses: a success and a server error
Statuses == {200, 500}

\* values of one Set-Cookie header: the token cookie with attributes and an
\* encoded "="; the token cookie without attributes; another cookie; a token
\* cookie without value; the empty string
CookieHeaders ==
    {<<"XSRF-TOKEN=", "a", "%3D", ";", " ", "p">>,
     <<"XSRF-TOKEN=", "b">>,
     <<"s", "=", "1">>,
     <<"XSRF-TOKEN=", ";", " ", "p">>,
     <<>>}

\* the Set-Cookie headers of a response, in order: none, one or two
SetCookieLists ==
    {<<>>} \cup {<<h>> : h \in CookieHeaders}
    \cup {<<h1, h2>> : h1 \in CookieHeaders, h2 \in CookieHeaders}

\* the response to the token request: the transport raises, or a response of
\* any status with its Set-Cookie headers
TokenReplies ==
    {[kind |-> "raise", exc |-> "RequestException"]}
    \cup {[kind |-> "ok", status |-> st, set_cookies |-> l]
            : st \in Statuses, l \in SetCookieLists}

\* the value requests gives for a header that the response carries several
\* times: the values joined by ", "
RECURSIVE joined(_)
joined(list) ==
    IF Len(list) = 1 THEN Head(list)
    ELSE Head(list) \o <<",", " ">> \o joined(Tail(list))

\* line 232: res.headers.get("Set-Cookie")
headers_get(list) == IF list = <<>> THEN NoHeader ELSE Header(joined(list))

\* line 235: res.raw.headers.getlist("Set-Cookie"): the values one by one
raw_getlist(list) == list

\* lines 232-237: the list of cookie headers that is searched
cookies_list(set_cookies) ==
    LET cookies == headers_get(set_cookies) IN
    IF ~cookies.has \/ cookies.v = <<>>
    THEN raw_getlist(set_cookies)
    ELSE <<cookies.v>>

\* _XSRF_REGEX = XSRF-TOKEN=([^;]+) matches at position i of the header
MatchesAt(h, i) == h[i] = "XSRF-TOKEN=" /\ i < Len(h) /\ h[i + 1] # ";"

\* _XSRF_REGEX.search(h) finds a match
Matches(h) == \E i \in 1..Len(h) : MatchesAt(h, i)

\* m.group(1) of the leftmost match: the longest run without ";" after the name
group1(h) ==
    LET i == CHOOSE i \in 1..Len(h) :
               MatchesAt(h, i) /\ \A j \in 1..(i - 1) : ~MatchesAt(h, j)
        e == CHOOSE e \in (i + 1)..Len(h) :
               /\ \A j \in (i + 1)..e : h[j] # ";"
               /\ e = Len(h) \/ h[e + 1] = ";"
    IN SubSeq(h, i + 1, e)

\* urllib.parse.unquote
unquote(v) == [k \in 1..Len(v) |-> IF v[k] = "%3D" THEN "=" ELSE v[k]]

\* lines 239-245: the first header of the list that holds the token decides
RECURSIVE find_token(_)
find_token(list) ==
    IF list = <<>>
    THEN ApiRaise("RuntimeError: Could not find correct cookie property")
    ELSE LET cookie_header == Head(list) IN
         IF Contains(cookie_header, <<"XSRF-TOKEN=">>) /\ Matches(cookie_header)
         THEN ApiReturn(unquote(group1(cookie_header)))
         ELSE find_token(Tail(list))

\* SuperviveService._get_xsrf_token, given the response to its request
get_xsrf_token(reply) ==
    IF reply.kind = "raise" THEN ApiRaise(reply.exc)
    ELSE find_token(cookies_list(reply.set_cookies))

\* values of Content-Type
TextHtml == <<"t", "e", "x", "t", "/", "h", "t", "m", "l">>
ContentTypes ==
    {<<>>,
     TextHtml,
     TextHtml \o <<";", " ", "c", "h", "a", "r", "s", "e", "t", "=", "u", "t", "f", "-", "8">>,
     <<"T", "E", "X", "T", "/", "H", "T", "M", "L">>,
     <<"t", "e", "x", "t", "/", "p", "l", "a", "i", "n">>,
     <<"a", "p", "p", "l", "i", "c", "a", "t", "i", "o", "n", "/", "j", "s", "o", "n">>}

\* bodies of the refresh response: not JSON, null, a list, an object
NotJson == [kind |-> "notjson"]
RefreshBodies == {NotJson, JsonNull, JsonList, [kind |-> "dict"]}

\* the response to the refresh request
RefreshReplies ==
    {[kind |-> "raise", exc |-> "RequestException"]}
    \cup {[kind |-> "ok", status |-> st, content_type |-> c, body |-> b]
            : st \in Statuses,
              c \in {NoHeader} \cup {Header(v) : v \in ContentTypes},
              b \in RefreshBodies}

\* line 229: the token request
TokenRequest(platform, player_id) ==
    [method |-> "GET", path |-> MatchesPath(platform, player_id), params |-> "page=1",
     xsrf |-> NoHeader]

\* line 251: f"api/players/{platform}-{normalized}/matches/fetch"
FetchPath(platform, player_id) ==
    "api/players/" \o platform \o "-" \o Str(normalized(player_id)) \o "/matches/fetch"

\* a refresh request without the token header
RefreshRequestWithoutToken(platform, player_id, csrf) ==
    [method |-> "POST", path |-> FetchPath(platform, player_id), params |-> "",
     xsrf |-> NoHeader]
\* lines 250-251: the refresh request, with the token in X-XSRF-TOKEN
RefreshRequest(platform, player_id, csrf) ==
    [method |-> "POST", path |-> FetchPath(platform, player_id), params |-> "",
     xsrf |-> Header(csrf)]

\* a test that lets a response without Content-Type through
html_only(content_type) == Contains(content_type, TextHtml)
\* line 254: ("text/html" in content_type) or (not content_type)
html_or_empty(content_type) ==
    Contains(content_type, TextHtml) \/ content_type = <<>>

\* a refresh that raises on an error status, as res.raise_for_status() would
refresh_outcome_checked(reply) ==
    IF reply.kind = "raise" THEN ApiRaise(reply.exc)
    ELSE IF reply.status >= 400 THEN ApiRaise("HTTPError")
    ELSE LET content_type == IF reply.content_type.has THEN reply.content_type.v
                             ELSE <<>>
         IN IF html_or_empty(content_type)
            THEN ApiRaise("RuntimeError: Invalid player id or XSRF Token")
            ELSE IF reply.body.kind = "notjson" THEN ApiRaise("JSONDecodeError")
            ELSE IF reply.body.kind = "null" THEN ApiRaise("ValueError")
            ELSE ApiReturn(reply.body)
\* lines 253-260, given the response to the refresh request
refresh_outcome(reply) ==
    IF reply.kind = "raise" THEN ApiRaise(reply.exc)
    ELSE LET content_type == IF reply.content_type.has THEN reply.content_type.v
                             ELSE <<>>
         IN IF html_or_empty(content_type)
            THEN ApiRaise("RuntimeError: Invalid player id or XSRF Token")
            ELSE IF reply.body.kind = "notjson" THEN ApiRaise("JSONDecodeError")
            ELSE IF reply.body.kind = "null" THEN ApiRaise("ValueError")
            ELSE ApiReturn(reply.body)

\* SuperviveService.fetch_new_player_matches: every way it can end
fetch_new_player_matches(platform, player_id) ==
    UNION {
      LET csrf == get_xsrf_token(token_reply)
          req1 == TokenRequest(platform, player_id)
      IN IF csrf.end # "ok"
         THEN {PagesEnd(csrf, <<token_reply>>, <<req1>>)}
         ELSE {PagesEnd(refresh_outcome(reply), <<token_reply, reply>>,
                        <<req1, RefreshRequest(platform, player_id, csrf.res)>>)
                 : reply \in RefreshReplies}
      : token_reply \in TokenReplies}

FetchNewPlayerMatches ==
    /\ pc = "running"
    /\ \E platform \in Platforms, player_id \in PlayerIds :
         \E o \in fetch_new_player_matches(platform, player_id) :
           lastOp' = ApiOp("fetch_new_player_matches", platform, player_id, 0,
                           o.replies, o.reqs, o)
    /\ pc' = "exited"
    /\ ApiFrame

\* these operations neither read nor write the cache: they are followed from
\* the initial state without store file
InitApi ==
    /\ Init
    /\ store = NoFile
    /\ tmp = NoFile

NextApi ==
    \/ CheckPlayerExists
    \/ GetPlayerMatches
    \/ GetPlayerMatchesPages
    \/ FetchNewPlayerMatches
    \/ Restart

SpecApi == InitApi /\ [][NextApi]_vars

\* multi-page calls with a budget of three pages, so that a page above a
\* last-page count of 2 can be requested
ThreePages == 3
NextPages == GetPlayerMatchesPagesOf({ThreePages}) \/ Restart
SpecPages == InitApi /\ [][NextPages]_vars

\* the same operations in a process whose cache holds entries: any initial
\* store, and multi-page calls of budget 1

NextApiCache ==
    \/ CheckPlayerExists
    \/ GetPlayerMatches
    \/ GetPlayerMatchesPagesOf({1})
    \/ FetchNewPlayerMatches
    \/ Restart

SpecApiCache == Init /\ [][NextApiCache]_vars

----------------------------------------------------------------------------
(* The two HTTP transports.  A request sent through a session is attempted *)
(* by urllib3 until its Retry object gives up or lets a response through;  *)
(* each attempt is one exchange with the server, hence one step.           *)

\* line 103: Retry(total=15, ..): the number of retries allowed
RetryTotal == 15

\* line 105: status_forcelist
Forcelist == {429, 500, 502, 503, 504}

\* urllib3's Retry.RETRY_AFTER_STATUS_CODES, used as respect_retry_after_header
\* is set (line 107)
RETRY_AFTER_STATUS_CODES == {413, 429, 503}

\* lines 102-108: the Retry object of the session with retry
session_with_retry ==
    [total |-> RetryTotal, status_forcelist |-> Forcelist,
     allowed_methods |-> {"GET", "POST"}, respect_retry_after_header |-> TRUE,
     read |-> TRUE]

\* a session whose adapter retries once on the statuses of the forcelist
one_retry_session ==
    [total |-> 1, status_forcelist |-> Forcelist,
     allowed_methods |-> {"GET", "POST"}, respect_retry_after_header |-> TRUE,
     read |-> TRUE]

\* lines 120-124: requests.Session() without adapter of its own: Retry(0, read=False)
no_retry_session ==
    [total |-> 0, status_forcelist |-> {},
     allowed_methods |-> {"GET", "HEAD", "PUT", "DELETE", "OPTIONS", "TRACE"},
     respect_retry_after_header |-> TRUE, read |-> FALSE]

\* the Retry object of a transport
RetryOf(transport) ==
    IF transport = "client" THEN session_with_retry ELSE no_retry_session

\* statuses of upstream responses, each with or without a Retry-After header
TransportStatuses == {200, 404, 413} \cup Forcelist
Responses == {[status |-> st, retry_after |-> ra] : st \in TransportStatuses, ra \in BOOLEAN}

\* Retry.is_retry, with total the retries that are left
is_retry(retry, total, method, response) ==
    /\ method \in retry.allowed_methods
    /\ \/ response.status \in retry.status_forcelist
       \/ /\ total # 0
          /\ retry.respect_retry_after_header
          /\ response.retry_after
          /\ response.status \in RETRY_AFTER_STATUS_CODES

\* Retry.is_exhausted, on the count left after Retry.increment
is_exhausted(total) == total < 0

\* history of a request through a transport: the attempts sent so far, the
\* retries left, how the last attempt was answered (last) and the last response,
\* and whether every answer so far was a response with a status of the forcelist
NoResponse == [status |-> 0, retry_after |-> FALSE]
Sent(transport, method) ==
    [op |-> "send", transport |-> transport, method |-> method, attempts |-> 1,
     total |-> RetryOf(transport).total, last |-> "none", response |-> NoResponse,
     only_forcelist |-> TRUE, end |-> "pending", exc |-> None]

\* self.client.get(..), self.no_retry_client.get(..) and .post(..): the first
\* attempt goes out
Send(transport, method) ==
    /\ pc = "running"
    /\ pc' = "sending"
    /\ lastOp' = Sent(transport, method)
    /\ UNCHANGED <<mem, store, tmp, origin, peer>>

\* lines 142-144: _get
\* lines 146-148: _get_no_retry
\* lines 150-152: _post_no_retry

\* the request ends: the session call returns or raises to the service
Ended(end, exc) ==
    /\ pc' = "running"
    /\ lastOp'.end = end /\ lastOp'.exc = exc
    /\ lastOp'.attempts = lastOp.attempts
    /\ lastOp'.total = lastOp.total

\* the request is sent again, with one retry less
Resent ==
    /\ pc' = "sending"
    /\ lastOp'.end = "pending" /\ lastOp'.exc = None
    /\ lastOp'.attempts = lastOp.attempts + 1
    /\ lastOp'.total = lastOp.total - 1

\* the shape of the history after a step
Recorded(last, response, only) ==
    /\ lastOp' \in [op : {"send"}, transport : {lastOp.transport},
                    method : {lastOp.method}, last : {last},
                    attempts : {lastOp.attempts, lastOp.attempts + 1},
                    total : {lastOp.total, lastOp.total - 1},
                    response : {response}, only_forcelist : {only},
                    end : {"pending", "ok", "raise"},
                    exc : {None, "RetryError", "ConnectionError"}]
    /\ UNCHANGED <<mem, store, tmp, origin, peer>>

\* upstream answers the attempt in flight: the response is retried on, the
\* retries are exhausted (requests raises RetryError), or it is returned
Respond ==
    /\ pc = "sending"
    /\ \E response \in Responses :
         /\ Recorded("response", response,
                     lastOp.only_forcelist /\ response.status \in Forcelist)
         /\ IF is_retry(RetryOf(lastOp.transport), lastOp.total, lastOp.method, response)
            THEN IF is_exhausted(lastOp.total - 1)
                 THEN Ended("raise", "RetryError")
                 ELSE Resent
            ELSE Ended("ok", None)

\* the attempt in flight fails without response: the connection cannot be made
\* (connect) or breaks before the response is read (read)
TransportError ==
    /\ pc = "sending"
    /\ \E kind \in {"connect", "read"} :
         /\ Recorded(kind, lastOp.response, FALSE)
         /\ IF kind = "read" /\ (~RetryOf(lastOp.transport).read
                                  \/ lastOp.method \notin RetryOf(lastOp.transport).allowed_methods)
            THEN Ended("raise", "ConnectionError")
            ELSE IF is_exhausted(lastOp.total - 1)
            THEN Ended("raise", "ConnectionError")
            ELSE Resent

NextTransport ==
    \/ Send("client", "GET")
    \/ Send("no_retry_client", "GET")
    \/ Send("no_retry_client", "POST")
    \/ Respond
    \/ TransportError
    \/ Restart

SpecTransport == InitApi /\ [][NextTransport]_vars

----------------------------------------------------------------------------
(* Properties of DiskCache, checked under Spec *)

CacheOps == {"get", "set_absolute", "set_sliding"}

\* the step is a call of get(k) in a process that was not stopped during it
GetStep(k) == lastOp'.op = "get" /\ lastOp'.key = k /\ pc' = "running"
\* the step is a call of set_absolute(k, ..) or set_sliding(k, ..), completed or not
SetStep(k) == lastOp'.op \in {"set_absolute", "set_sliding"} /\ lastOp'.key = k

\* C1: a get(key) whose reading of the clock is at or after the expires_at of
\* the key's entry (equality included) never returns the stored value: it
\* reports absence (None) and the entry is gone from _data, whatever the policy.
C1_ExpiredNeverReturned ==
    [][\A k \in Keys :
         (/\ GetStep(k)
          /\ IsEntry(ItemOf(mem, k))
          /\ lastOp'.t >= ItemOf(mem, k).expires_at)
         => /\ lastOp'.res = None
            /\ lastOp'.path = "evict"
            /\ ItemOf(mem', k) = Absent]_vars

\* a get at time 0 evicted an entry: its expires_at was 0, equal to the clock
C1_Witness ==
    /\ pc = "running"
    /\ lastOp.op = "get" /\ lastOp.path = "evict" /\ lastOp.end = "ok"
    /\ lastOp.t = 0

\* C2: for an entry created by set_sliding(key, v, T), T > 0, whose latest set or
\* renewal read the clock at t (origin.t): a get before t + T that returns,
\* returns v and sets expires_at to its own reading of the clock at the renewal
\* plus T, so that a get at t + T - 1 succeeds; a get at or after t + T, hence at
\* t + T + 1, reports absence and removes the entry.
C2_SlidingRenewal ==
    [][\A k \in Keys :
         LET o == origin[k] IN
         (GetStep(k) /\ o.op = "set_sliding" /\ o.ttl > 0)
         => /\ lastOp'.t < o.t + o.ttl
               => /\ lastOp'.path = "renew"
                  /\ lastOp'.end = "ok" => lastOp'.res = o.value
                  /\ ItemOf(mem', k) = Entry(o.value, lastOp'.t2 + o.ttl, TRUE, o.ttl)
            /\ lastOp'.t = o.t + o.ttl - 1 => lastOp'.path = "renew"
            /\ lastOp'.t >= o.t + o.ttl
               => lastOp'.res = None /\ ItemOf(mem', k) = Absent]_vars

\* a get returned the value of a sliding entry and renewed it from a later reading
C2_Witness ==
    /\ pc = "running"
    /\ lastOp.op = "get" /\ lastOp.path = "renew" /\ lastOp.end = "ok"
    /\ lastOp.res = "v1"
    /\ lastOp.t2 > lastOp.t
    /\ origin[lastOp.key].op = "set_sliding"
    /\ ItemOf(mem, lastOp.key).expires_at = lastOp.t2 + origin[lastOp.key].ttl

\* C3: an entry created by set_absolute(key, v, ttl) at clock reading t keeps
\* expires_at = t + ttl through any number of gets; while it is the key's entry,
\* only a set on the key or the eviction by a get of the key changes it (a new
\* process reloads the file).
C3_AbsoluteNeverRenewed ==
    /\ [](\A k \in Keys :
            (pc = "running" /\ origin[k].op = "set_absolute")
            => ItemOf(mem, k) = Entry(origin[k].value, origin[k].t + origin[k].ttl, FALSE, 0))
    /\ [][\A k \in Keys :
            (origin[k].op = "set_absolute" /\ ItemOf(mem', k) # ItemOf(mem, k))
            => \/ SetStep(k)
               \/ lastOp'.op = "get" /\ lastOp'.key = k /\ lastOp'.path = "evict"
               \/ lastOp'.op = "restart"]_vars

\* a get returned the value of an absolute entry set with a positive ttl
C3_Witness ==
    /\ pc = "running"
    /\ lastOp.op = "get" /\ lastOp.path = "hit" /\ lastOp.res = "v1"
    /\ origin[lastOp.key].op = "set_absolute"
    /\ origin[lastOp.key].ttl > 0
    /\ lastOp.t > origin[lastOp.key].t

\* the entry that a set_* call with the arguments recorded in o creates
Fresh(o) ==
    IF o.op = "set_absolute"
    THEN Entry(o.value, o.t + o.ttl, FALSE, 0)
    ELSE Entry(o.value, o.t + o.ttl, TRUE, o.ttl)

\* C4: after set_absolute or set_sliding on a key, whatever entry the key held,
\* value, sliding flag, sliding_ttl and expires_at are those of this set alone;
\* afterwards an entry of set_absolute is not renewed by a get that finds it
\* unexpired, and one of set_sliding (ttl > 0) is.
C4_OverwriteReplaces ==
    [][\A k \in Keys :
         /\ (SetStep(k) /\ lastOp'.path = "set")
            => /\ origin'[k].op = lastOp'.op
               /\ ItemOf(mem', k) = Fresh(origin'[k])
         /\ (GetStep(k) /\ origin[k].op = "set_absolute"
               /\ lastOp'.t < ItemOf(mem, k).expires_at)
            => ItemOf(mem', k) = ItemOf(mem, k) /\ lastOp'.path = "hit"
         /\ (GetStep(k) /\ origin[k].op = "set_sliding" /\ origin[k].ttl > 0
               /\ lastOp'.t < ItemOf(mem, k).expires_at)
            => /\ lastOp'.path = "renew"
               /\ ItemOf(mem', k).expires_at = lastOp'.t2 + origin[k].ttl]_vars

\* set_absolute replaced a sliding entry by an entry without sliding fields
C4_Witness ==
    /\ pc = "running"
    /\ lastOp.op = "set_absolute" /\ lastOp.end = "ok" /\ lastOp.over = "sliding"
    /\ ItemOf(mem, lastOp.key) = Entry("v1", lastOp.t + MaxTtl, FALSE, 0)

\* C5: when the process is stopped during _save, the file at the canonical path
\* is the complete previous document or the complete new one; it is the
\* previous one at every point before os.replace, the one between the completed
\* write of the temporary file and the rename included.
C5_AtomicReplace ==
    [][(pc = "running" /\ pc' = "crashed")
         => /\ store' = store \/ (store' = mem' /\ tmp' = NoFile)
            /\ tmp' \in {Garbage, Complete} => store' = store]_vars

\* stopped between the write of the temporary file and the rename: the store
\* file is a complete document that differs from the one being saved
C5_Witness ==
    /\ pc = "crashed"
    /\ tmp = Complete
    /\ store.kind = "map"
    /\ store # mem

\* C6: when a call that mutates _data (a set, an eviction or a renewal inside
\* get) returns without error, the document in the store file equals _data.
C6_PersistedEqualsMemory ==
    (/\ pc = "running"
     /\ lastOp.op \in CacheOps
     /\ lastOp.path \in Mutating
     /\ lastOp.end = "ok")
    => store = mem

\* set_sliding returned and the file holds the entry it created
C6_Witness ==
    /\ pc = "running"
    /\ lastOp.op = "set_sliding" /\ lastOp.end = "ok"
    /\ store.kind = "map"
    /\ IsEntry(store.m[lastOp.key])
    /\ store.m[lastOp.key].value = "v1"
    /\ store.m[lastOp.key].sliding

\* key has no entry in _data nor in the store file
Gone(k) ==
    /\ mem.kind = "map" /\ mem.m[k] = Absent
    /\ store.kind = "map" => store.m[k] = Absent

\* C7: a get that finds an expired entry removes it from _data and, when it
\* returns, has removed it from the store file and reports absence; from then
\* on every get of the key reports absence, whatever the clock reads, until a
\* set on that key.
C7_EvictionIsFinal ==
    [][\A k \in Keys :
         /\ (GetStep(k) /\ lastOp'.path = "evict")
            => /\ ItemOf(mem', k) = Absent
               /\ lastOp'.end = "ok" => (lastOp'.res = None /\ Gone(k)')
         /\ (GetStep(k) /\ mem.kind = "map" /\ mem.m[k] = Absent)
            => (lastOp'.res = None /\ lastOp'.end = "ok" /\ ItemOf(mem', k) = Absent)
         /\ (mem.kind = "map" /\ mem.m[k] = Absent /\ ItemOf(mem', k) # Absent)
            => (SetStep(k) \/ lastOp'.op = "restart")
         /\ (Gone(k) /\ ~SetStep(k)) => Gone(k)']_vars

\* a get of a key whose entry an earlier get evicted: a miss
C7_Witness ==
    /\ pc = "running"
    /\ lastOp.op = "get" /\ lastOp.path = "miss" /\ lastOp.res = None
    /\ origin[lastOp.key].op = "evicted"
    /\ Gone(lastOp.key)

\* C8: whatever the store file held when DiskCache was constructed, no get and
\* no set fails on the loaded content (AttributeError, TypeError).
C8_LoadFailuresBehaveEmpty ==
    lastOp.op \in CacheOps => lastOp.exc \notin {"AttributeError", "TypeError"}

\* the store file held [] at construction: _load kept the list as _data and a
\* get raised AttributeError
C8_Witness ==
    /\ pc = "running"
    /\ store = ListDoc /\ mem = ListDoc
    /\ lastOp.op = "get" /\ lastOp.end = "raise" /\ lastOp.exc = "AttributeError"

C29_MissChangesNothing ==
    [][\A k \in Keys :
         (lastOp'.op = "get" /\ lastOp'.key = k /\ ItemOf(mem, k) = Absent)
         => /\ lastOp'.end = "ok" /\ lastOp'.res = None
            /\ mem' = mem /\ store' = store /\ tmp' = tmp]_vars

\* _data is the list loaded from a store file that held []: no key has an
\* entry, and get raised AttributeError; the files are untouched
C29_Witness ==
    /\ pc = "running"
    /\ mem = ListDoc
    /\ lastOp.op = "get" /\ ItemOf(mem, lastOp.key) = Absent
    /\ lastOp.end = "raise" /\ lastOp.exc = "AttributeError"
    /\ lastOp.path # "miss"
    /\ tmp = Garbage

\* the last call on key k raised the OSError of a failed save
FailedSave(k) ==
    /\ pc = "running"
    /\ lastOp.op \in {"get", "set_absolute", "set_sliding"} /\ lastOp.key = k
    /\ lastOp.io /\ lastOp.end = "raise"

\* C31: when the save inside set_absolute, set_sliding, or a get that evicts
\* or renews fails, _data holds the mutation (the new entry, the entry removed,
\* the deadline moved) and the store file holds the document it held before;
\* the next get of the key that the same process completes answers from
\* _data: the value that was set or renewed while its new deadline has not
\* passed, absence after the eviction.
C31_NoRollback ==
    [][\A k \in Keys :
         /\ FailedSave(k)'
            => /\ store' = store
               /\ lastOp'.path \in Mutating
               /\ lastOp'.path = "evict" => ItemOf(mem', k) = Absent
               /\ lastOp'.path = "renew"
                  => /\ IsEntry(ItemOf(mem', k))
                     /\ ItemOf(mem', k) =
                          [ItemOf(mem, k) EXCEPT
                             !.expires_at = lastOp'.t2 + ItemOf(mem, k).sliding_ttl]
               /\ lastOp'.path = "set"
                  => ItemOf(mem', k) =
                       Entry(origin'[k].value, origin'[k].t + origin'[k].ttl,
                             lastOp'.op = "set_sliding",
                             IF lastOp'.op = "set_sliding" THEN origin'[k].ttl ELSE 0)
         /\ (FailedSave(k) /\ lastOp'.op = "get" /\ lastOp'.key = k /\ pc' = "running")
            => /\ lastOp.path = "evict"
                  => (lastOp'.path = "miss" /\ lastOp'.res = None /\ lastOp'.end = "ok")
               /\ (lastOp.path \in {"set", "renew"} /\ lastOp'.t < ItemOf(mem, k).expires_at)
                  => /\ lastOp'.path \in {"hit", "renew"}
                     /\ lastOp'.end = "ok" => lastOp'.res = ItemOf(mem, k).value]_vars

\* set_absolute raised from its save and kept its entry in _data only; the get
\* that followed returned the value, which the store file never held
C31_Witness ==
    /\ pc = "running"
    /\ lastOp.op = "get" /\ lastOp.path = "hit" /\ lastOp.res = "v1"
    /\ origin[lastOp.key].op = "set_absolute"
    /\ IsEntry(ItemOf(mem, lastOp.key))
    /\ ItemOf(store, lastOp.key) = Absent

\* a step of get, set_absolute or set_sliding called with key k
CacheStep(k) ==
    lastOp'.op \in {"get", "set_absolute", "set_sliding"} /\ lastOp'.key = k

\* C30 as stated: get, set_absolute and set_sliding on key k leave the entry of
\* every other key as it was, in _data and in the store file.
C30_OtherKeysUnchanged ==
    [][\A k \in Keys : \A j \in Keys \ {k} :
         CacheStep(k)
         => /\ ItemOf(mem', j) = ItemOf(mem, j)
            /\ ItemOf(store', j) = ItemOf(store, j)]_vars

\* C30, amended: get, set_absolute and set_sliding on key k leave the entry of
\* every other key j as it was in _data, expired or not.  In the store file the
\* entry of j stays as it was whenever the file and _data agreed on j before the
\* call, and whenever the call does not reach the rename; a call that mutates
\* and returns leaves in the file, for every other key, the entry _data holds,
\* so that a change of j whose save failed earlier is written by it.
C30_OtherKeysFollowMemory ==
    [][\A k \in Keys : \A j \in Keys \ {k} :
         CacheStep(k)
         => /\ ItemOf(mem', j) = ItemOf(mem, j)
            /\ ItemOf(store, j) = ItemOf(mem, j)
               => ItemOf(store', j) = ItemOf(store, j)
            /\ lastOp'.path \notin Mutating => store' = store
            /\ (lastOp'.end = "raise" /\ store' # store) => lastOp'.exc = "OSError"
            /\ ItemOf(store', j) \in {ItemOf(store, j), ItemOf(mem, j)}
            /\ (lastOp'.path \in Mutating /\ lastOp'.end = "ok")
               => ItemOf(store', j) = ItemOf(mem, j)]_vars

\* a get of q2 evicted its entry and saved; the expired entry of q1 is still in
\* _data and in the store file
C30_Witness ==
    /\ pc = "running"
    /\ lastOp.op = "get" /\ lastOp.key = SearchKey("q2")
    /\ lastOp.path = "evict" /\ lastOp.end = "ok"
    /\ ItemOf(mem, SearchKey("q2")) = Absent
    /\ IsEntry(ItemOf(mem, SearchKey("q1")))
    /\ ItemOf(mem, SearchKey("q1")).expires_at <= lastOp.t
    /\ ItemOf(store, SearchKey("q1")) = ItemOf(mem, SearchKey("q1"))

----------------------------------------------------------------------------
(* Properties of two processes on one cache path, checked under SpecShared *)

\* C28: with two processes on one cache path, each holding the _data it loaded
\* at its start: every _save writes its process's whole _data to the same
\* temporary file, and the rename makes that file the store file; when a
\* process renames the file it wrote, the store file is its own _data, so an
\* entry that the other process persisted and that it does not hold is no
\* longer in the store file.
C28_LostUpdate ==
    [][\A p \in Procs :
         /\ (lastOp'.op = "write" /\ lastOp'.proc = p /\ PcOf(p) = "running")
            => tmp' = DataOf(p)'
         /\ (lastOp'.op = "replace" /\ lastOp'.proc = p /\ lastOp'.end = "ok"
               /\ PcOf(p) = "replacing")
            => /\ store' = tmp
               /\ tmp = DataOf(p)
                  => \A k \in Keys :
                       (/\ origin[k].op = "persisted" /\ origin[k].value # p
                        /\ ItemOf(DataOf(p), k) = Absent)
                       => ItemOf(store', k) = Absent]_vars

\* A persisted an entry for its key and holds it; B, which never loaded it, then
\* saved its own _data: the store file is B's _data, without the entry of A
C28_Witness ==
    /\ pc = "running" /\ peer.pc = "running"
    /\ lastOp.op = "replace" /\ lastOp.proc = "B" /\ lastOp.end = "ok"
    /\ origin[KeyOf("A")].op = "persisted" /\ origin[KeyOf("A")].value = "A"
    /\ IsEntry(ItemOf(mem, KeyOf("A")))
    /\ ItemOf(peer.mem, KeyOf("A")) = Absent
    /\ store = peer.mem
    /\ ItemOf(store, KeyOf("A")) = Absent
    /\ IsEntry(ItemOf(store, KeyOf("B")))

----------------------------------------------------------------------------
(* Properties of SuperviveService, checked under SpecService *)

\* the step is a call of search_players(q, use_cache) in a process not stopped
SearchStep(q, use_cache) ==
    /\ lastOp'.op = "search_players" /\ lastOp'.key = SearchKey(q)
    /\ lastOp'.use_cache = use_cache
    /\ pc' = "running"

FreshSearch(q) ==
    /\ pc = "running"
    /\ lastOp.op = "search_players" /\ lastOp.key = SearchKey(q)
    /\ ~lastOp.use_cache /\ lastOp.end = "ok"

\* what search_players(q, use_cache=False) does in the step itself: no cache
\* read, one HTTP request, and when it returns the entry of q is the fetched
\* result with the absolute deadline of the clock reading + 7 days, persisted
UncachedSearchOverwrites(q) ==
    SearchStep(q, FALSE)
    => /\ lastOp'.lookup = "skip"
       /\ lastOp'.http = 1
       /\ lastOp'.end = "ok"
          => /\ ItemOf(mem', SearchKey(q)) =
                  Entry(lastOp'.res, lastOp'.t2 + SevenDays, FALSE, 0)
             /\ store' = mem'
       /\ lastOp'.end # "ok" => mem' = mem /\ store' = store

\* C32 as stated: search_players(q, use_cache=False) never reads the cache and
\* always issues an HTTP request; when it returns it has overwritten the entry
\* of q with the fetched result and the deadline now + 7 days, and a cached
\* search of q that follows before that deadline returns the fetched result.
C32_UncachedSearchRefreshes ==
    [][\A q \in Queries :
         /\ UncachedSearchOverwrites(q)
         /\ (/\ FreshSearch(q) /\ SearchStep(q, TRUE)
             /\ lastOp'.t < ItemOf(mem, SearchKey(q)).expires_at)
            => (lastOp'.end = "ok" /\ lastOp'.res = lastOp.res)]_vars

\* C32, amended: as above, but the cached search that follows returns the
\* fetched result, without HTTP request, only if that result is not JSON null;
\* after a null result it issues the HTTP request again.
C32_UncachedSearchRefreshesNonNull ==
    [][\A q \in Queries :
         /\ UncachedSearchOverwrites(q)
         /\ (/\ FreshSearch(q) /\ SearchStep(q, TRUE)
             /\ lastOp'.t < ItemOf(mem, SearchKey(q)).expires_at)
            => /\ lastOp.res # None
                  => (lastOp'.end = "ok" /\ lastOp'.res = lastOp.res /\ lastOp'.http = 0)
               /\ lastOp.res = None => lastOp'.http = 1]_vars

\* an uncached search at a late clock reading returned v1 and left it as the
\* entry of its query with the deadline 7 days after that reading, in _data and
\* in the store file
C32_Witness ==
    /\ FreshSearch("q1")
    /\ lastOp.res = "v1" /\ lastOp.http = 1 /\ lastOp.lookup = "skip"
    /\ lastOp.t2 = SevenDays
    /\ ItemOf(mem, SearchKey("q1")) = Entry("v1", SevenDays + SevenDays, FALSE, 0)
    /\ store = mem

----------------------------------------------------------------------------
(* Properties of get_match, checked under SpecMatch and SpecMatchIds *)

\* the step is a call of get_match for the entry of key k
MatchStep(k) == lastOp'.op = "get_match" /\ lastOp'.key = k /\ pc' = "running"

DifferOnlyInHyphens(a, b) ==
    /\ a # b
    /\ SelectSeq(a, LAMBDA c : c # "-") = SelectSeq(b, LAMBDA c : c # "-")

\* C19: get_match uses the match id verbatim.  For two consecutive get_match
\* calls on the same platform whose match ids differ only in hyphens, the cache
\* keys differ and so do the request paths; a call served from the cache returns
\* the value held under its own key, and a call whose own key has no entry
\* requests its own path, whatever the other key holds.
C19_MatchIdVerbatim ==
    [][(/\ lastOp.op = "get_match" /\ lastOp'.op = "get_match"
        /\ lastOp.platform = lastOp'.platform
        /\ DifferOnlyInHyphens(lastOp.match_id, lastOp'.match_id))
       => /\ lastOp'.key # lastOp.key
          /\ lastOp.reqs # <<>> /\ lastOp'.reqs # <<>> => lastOp'.reqs # lastOp.reqs
          /\ lastOp'.path = "cached" => lastOp'.res = ItemOf(mem, lastOp'.key).value
          /\ (mem.kind = "map" /\ mem.m[lastOp'.key] = Absent)
             => /\ lastOp'.http = 1
                /\ lastOp'.reqs = <<"api/matches/" \o lastOp'.platform \o "-"
                                      \o Str(lastOp'.match_id)>>]_vars

\* get_match("steam", "m1") fetched [] over HTTP while the entry of
\* ("steam", "m-1") held "v1", unexpired
C19_Witness ==
    /\ pc = "running"
    /\ lastOp.op = "get_match" /\ lastOp.match_id = <<"m", "1">>
    /\ lastOp.path = "fetched" /\ lastOp.http = 1 /\ lastOp.res = EmptyList
    /\ lastOp.reqs = <<"api/matches/steam-m1">>
    /\ IsEntry(ItemOf(mem, "match:steam:m-1"))
    /\ ItemOf(mem, "match:steam:m-1").value = "v1"
    /\ ItemOf(mem, "match:steam:m-1").expires_at > FifteenDays
    /\ ItemOf(mem, "match:steam:m1").value = EmptyList

\* the operations of the service that use the cache
CachedOps == {"search_players", "get_match"}

\* after is what the key holds once the entry before was looked up, with no
\* value stored: nothing, or the same value under the same policy
NothingStored(before, after) ==
    \/ after = Absent
    \/ after = before
    \/ /\ IsEntry(before) /\ IsEntry(after)
       /\ after.value = before.value
       /\ after.sliding = before.sliding
       /\ after.sliding_ttl = before.sliding_ttl

FindsUnexpired(k) ==
    /\ lastOp'.op \in CachedOps /\ lastOp'.key = k /\ lastOp'.use_cache
    /\ pc' = "running"
    /\ IsEntry(ItemOf(mem, k))
    /\ lastOp'.t < ItemOf(mem, k).expires_at

----------------------------------------------------------------------------
(* Properties of the operations without cache, checked under SpecApi *)

\* the body of the only reply of the last call is a JSON object
GotObject == lastOp.replies[1].kind = "ok" /\ lastOp.replies[1].body.kind = "dict"

\* C12: check_player_exists raises the missing-field error (ValueError) when the
\* body has neither "exists" nor "Exists", returns False without error when the
\* body is {"exists": false}, and returns True when a flag is true.
C12_ExistsFlag ==
    (lastOp.op = "check_player_exists" /\ GotObject)
    => LET body == lastOp.replies[1].body IN
       /\ (body.exists = "absent" /\ body.Exists = "absent")
          => (lastOp.end = "raise" /\ lastOp.exc = "ValueError")
       /\ (body.exists = "false" /\ body.Exists = "absent")
          => (lastOp.end = "ok" /\ lastOp.res = "False")
       /\ (body.exists = "true" \/ body.Exists = "true")
          => (lastOp.end = "ok" /\ lastOp.res = "True")

\* the body was {"exists": false} and check_player_exists raised ValueError
C12_Witness ==
    /\ lastOp.op = "check_player_exists" /\ GotObject
    /\ lastOp.replies[1].body.exists = "false"
    /\ lastOp.replies[1].body.Exists = "absent"
    /\ lastOp.end = "raise" /\ lastOp.exc = "ValueError"

\* the last call is a get_player_matches_pages
PagesCall == lastOp.op = "get_player_matches_pages"

\* the i-th reply of the last call is a page: a JSON object whose "data" is a
\* list of items or is absent
IsPage(i) ==
    /\ lastOp.replies[i].kind = "ok"
    /\ lastOp.replies[i].body.kind = "dict"
    /\ lastOp.replies[i].body.data.kind # "null"

\* the items of a reply
ItemsOfReply(reply) ==
    IF reply.kind = "ok" /\ reply.body.kind = "dict" THEN reply.body.data.items ELSE <<>>

\* the items of the first n replies, in order
RECURSIVE ItemsUpTo(_, _)
ItemsUpTo(replies, n) ==
    IF n = 0 THEN <<>> ELSE ItemsUpTo(replies, n - 1) \o ItemsOfReply(replies[n])

\* the call returned after the i-th fetch, with the items of that page last in
\* the result, and requested no page above it
StoppedAfter(i) ==
    LET items == ItemsOfReply(lastOp.replies[i]) IN
    /\ lastOp.end = "ok"
    /\ Len(lastOp.replies) = i
    /\ Len(lastOp.res) >= Len(items)
    /\ SubSeq(lastOp.res, Len(lastOp.res) - Len(items) + 1, Len(lastOp.res)) = items
    /\ \A j \in 1..Len(lastOp.reqs) : lastOp.reqs[j].page <= lastOp.reqs[i].page

\* the last-page count that the metadata reports: the one under last_page when
\* it is there and not zero, the one under lastPage otherwise
ReportedLastPage(meta) ==
    IF meta.last_page.has /\ meta.last_page.n > 0 THEN meta.last_page
    ELSE meta.lastPage

\* C13: when the metadata of fetched page p reports a positive last-page count
\* L with p >= L, where L is the count under last_page when that one is present
\* and not zero and the count under lastPage otherwise, the items of page p are
\* included in the result and no page above p is requested, whatever the budget.
C13_StopsAtReportedLastPage ==
    PagesCall =>
      \A i \in 1..Len(lastOp.replies) :
        (/\ IsPage(i)
         /\ lastOp.replies[i].body.meta.kind = "dict"
         /\ LET c == ReportedLastPage(lastOp.replies[i].body.meta) IN
            c.has /\ c.n > 0 /\ lastOp.reqs[i].page >= c.n)
        => StoppedAfter(i)

\* page 1 reported lastPage = 1 and had items; the budget allowed a second page
C13_Witness ==
    /\ PagesCall
    /\ lastOp.arg > 1
    /\ Len(lastOp.replies) = 1
    /\ IsPage(1)
    /\ lastOp.replies[1].body.meta = Meta(NoCount, Count(1))
    /\ lastOp.replies[1].body.data = Data(1, 2)
    /\ lastOp.end = "ok"
    /\ lastOp.res = <<<<1, 1>>, <<1, 2>>>>

\* C13 as first stated: the same for a positive count L with p >= L under either
\* of last_page and lastPage.
C13_StopsAtAnyLastPage ==
    PagesCall =>
      \A i \in 1..Len(lastOp.replies) :
        (/\ IsPage(i)
         /\ lastOp.replies[i].body.meta.kind = "dict"
         /\ \E c \in {lastOp.replies[i].body.meta.last_page,
                       lastOp.replies[i].body.meta.lastPage} :
              c.has /\ c.n > 0 /\ lastOp.reqs[i].page >= c.n)
        => StoppedAfter(i)

\* the i-th reply of the last call is a page without items: an object whose
\* "data" is absent or the empty list, or a body that is not an object
ZeroItems(i) ==
    /\ lastOp.replies[i].kind = "ok"
    /\ \/ lastOp.replies[i].body.kind = "list"
       \/ IsPage(i) /\ lastOp.replies[i].body.data.items = <<>>

\* C14: when fetched page p has zero items, whatever its metadata (missing,
\* without a count, with a zero count or with a count above p included), the
\* call returns after page p with exactly the items of pages 1..p-1 and no page
\* above p is requested.
C14_StopsOnEmptyPage ==
    PagesCall =>
      \A i \in 1..Len(lastOp.replies) :
        ZeroItems(i)
        => /\ lastOp.end = "ok"
           /\ Len(lastOp.replies) = i /\ Len(lastOp.reqs) = i
           /\ lastOp.reqs[i].page = i
           /\ \A j \in 1..Len(lastOp.reqs) : lastOp.reqs[j].page <= i
           /\ lastOp.res = ItemsUpTo(lastOp.replies, i - 1)

\* page 1 was empty and reported 2 as the last page; the budget allowed page 2,
\* which was not requested
C14_Witness ==
    /\ PagesCall
    /\ lastOp.arg = 2
    /\ Len(lastOp.reqs) = 1
    /\ IsPage(1)
    /\ lastOp.replies[1].body.data = Data(1, 0)
    /\ lastOp.replies[1].body.meta = Meta(Count(2), NoCount)
    /\ lastOp.end = "ok" /\ lastOp.res = <<>>

\* C15: get_player_matches_pages requests pages 1, 2, .., k in this order, each
\* once, on one path; when it returns, its result is the concatenation of the
\* "data" items of pages 1..k in that order, the items of a page in their order.
C15_PagesInOrder ==
    PagesCall =>
      /\ Len(lastOp.reqs) = Len(lastOp.replies)
      /\ \A i \in 1..Len(lastOp.reqs) :
           /\ lastOp.reqs[i].page = i
           /\ lastOp.reqs[i].path = lastOp.reqs[1].path
      /\ lastOp.end = "ok"
         => lastOp.res = ItemsUpTo(lastOp.replies, Len(lastOp.replies))

\* pages 1 and 2 had two items each: the result is the four items, page 1 first
C15_Witness ==
    /\ PagesCall
    /\ lastOp.end = "ok"
    /\ Len(lastOp.reqs) = 2
    /\ lastOp.reqs[1].page = 1 /\ lastOp.reqs[2].page = 2
    /\ lastOp.res = <<<<1, 1>>, <<1, 2>>, <<2, 1>>, <<2, 2>>>>

\* the i-th reply of the last call is a page with items whose metadata reports
\* no last-page count that page i has reached
GoesOn(i) ==
    /\ IsPage(i)
    /\ lastOp.replies[i].body.data.items # <<>>
    /\ LET c == ReportedLastPage(lastOp.replies[i].body.meta) IN
       ~(lastOp.replies[i].body.meta.kind = "dict" /\ c.has /\ c.n > 0 /\ i >= c.n)

\* C16: with budget pages, get_player_matches_pages ends after at most
\* max(pages, 0) single-page fetches; with pages <= 0 it fetches nothing and
\* returns the empty sequence; when every page has items and no metadata reports
\* a last-page count that was reached, it makes exactly pages fetches.
C16_BudgetBoundsFetches ==
    PagesCall =>
      /\ Len(lastOp.reqs) <= (IF lastOp.arg > 0 THEN lastOp.arg ELSE 0)
      /\ lastOp.arg <= 0
         => (lastOp.reqs = <<>> /\ lastOp.end = "ok" /\ lastOp.res = <<>>)
      /\ (lastOp.arg > 0 /\ \A i \in 1..Len(lastOp.replies) : GoesOn(i))
         => (Len(lastOp.reqs) = lastOp.arg /\ lastOp.end = "ok")

\* budget 2, both pages with items and a last page of 3 reported: two fetches
C16_Witness ==
    /\ PagesCall
    /\ lastOp.arg = MaxPages
    /\ Len(lastOp.reqs) = MaxPages
    /\ \A i \in 1..MaxPages : GoesOn(i)
    /\ lastOp.replies[MaxPages].body.meta = Meta(Count(MaxPages + 1), NoCount)
    /\ lastOp.end = "ok"

\* the fetch of the i-th page of the last call failed: the request or its
\* status check raised, the body was not JSON, or the payload was null
FetchFailed(i) ==
    \/ lastOp.replies[i].kind = "raise"
    \/ lastOp.replies[i].kind = "ok" /\ lastOp.replies[i].body.kind = "null"

\* the error of a failed fetch
FetchError(reply) == IF reply.kind = "raise" THEN reply.exc ELSE "ValueError"

\* C17: when the fetch of a page fails inside get_player_matches_pages, the call
\* raises that error after this fetch and returns nothing, the items of the
\* earlier pages included.
C17_PageFailureFailsCall ==
    PagesCall =>
      \A i \in 1..Len(lastOp.replies) :
        FetchFailed(i)
        => /\ Len(lastOp.replies) = i
           /\ lastOp.end = "raise"
           /\ lastOp.exc = FetchError(lastOp.replies[i])
           /\ lastOp.res = None

\* page 1 had two items, the payload of page 2 was null: ValueError, no result
C17_Witness ==
    /\ PagesCall
    /\ Len(lastOp.replies) = 2
    /\ GoesOn(1)
    /\ lastOp.replies[2].kind = "ok" /\ lastOp.replies[2].body = JsonNull
    /\ lastOp.end = "raise" /\ lastOp.exc = "ValueError"
    /\ lastOp.res = None

\* C34: get_player_matches_pages tests the last-page count only against the
\* metadata of the page just fetched: whenever a fetched page has items and
\* carries no metadata and the budget is not used up, the next page is
\* requested, whatever last-page count an earlier page reported; so page
\* numbers above that count are requested.  Checked under SpecPages.
C34_EarlierLastPageNotApplied ==
    PagesCall =>
      \A i \in 1..Len(lastOp.replies) :
        (/\ IsPage(i)
         /\ ItemsOfReply(lastOp.replies[i]) # <<>>
         /\ lastOp.replies[i].body.meta.kind # "dict"
         /\ i < lastOp.arg)
        => /\ Len(lastOp.reqs) > i
           /\ lastOp.reqs[i + 1].page = lastOp.reqs[i].page + 1

\* page 1 reported last_page = 2, page 2 had items and no metadata, and page 3,
\* above the reported count, was requested
C34_Witness ==
    /\ PagesCall
    /\ lastOp.arg = ThreePages
    /\ Len(lastOp.reqs) = ThreePages
    /\ IsPage(1) /\ IsPage(2)
    /\ lastOp.replies[1].body.meta = Meta(Count(2), NoCount)
    /\ lastOp.replies[1].body.data = Data(1, 2)
    /\ lastOp.replies[2].body.meta = NoMeta
    /\ lastOp.replies[2].body.data = Data(2, 2)
    /\ lastOp.reqs[3].page = 3
    /\ last_page_of(lastOp.replies[1].body.meta) < lastOp.reqs[3].page

\* the operations that build request paths from a player id
PlayerOps == {"get_player_matches", "get_player_matches_pages", "fetch_new_player_matches"}

\* C18: for the player id of a call and any id that differs from it only in
\* hyphens, on the same platform: every request of get_player_matches and of
\* get_player_matches_pages, and the token request of fetch_new_player_matches,
\* goes to the path the other id gives, and so does the refresh request.
C18_HyphensIgnoredInPaths ==
    lastOp.op \in PlayerOps =>
      \A b \in PlayerIds :
        DifferOnlyInHyphens(lastOp.id, b)
        => /\ lastOp.op = "get_player_matches"
              => lastOp.reqs = <<PageRequest(lastOp.platform, b, lastOp.arg)>>
           /\ lastOp.op = "get_player_matches_pages"
              => \A i \in 1..Len(lastOp.reqs) :
                   lastOp.reqs[i] = PageRequest(lastOp.platform, b, i)
           /\ lastOp.op = "fetch_new_player_matches"
              => /\ lastOp.reqs[1] = TokenRequest(lastOp.platform, b)
                 /\ Len(lastOp.reqs) = 2
                    => lastOp.reqs[2].path = FetchPath(lastOp.platform, b)

\* fetch_new_player_matches("steam", "A-1") sent both requests to the paths of
\* player A1
C18_Witness ==
    /\ lastOp.op = "fetch_new_player_matches"
    /\ lastOp.id = <<"A", "-", "1">>
    /\ Len(lastOp.reqs) = 2
    /\ lastOp.reqs[1].path = "api/players/steam-A1/matches"
    /\ lastOp.reqs[2].path = "api/players/steam-A1/matches/fetch"

\* the last call is a fetch_new_player_matches that received a response to its
\* refresh request
GotRefreshResponse ==
    /\ lastOp.op = "fetch_new_player_matches"
    /\ Len(lastOp.replies) = 2
    /\ lastOp.replies[2].kind = "ok"

\* C20: whenever the refresh response has no Content-Type, an empty one or one
\* that contains text/html, fetch_new_player_matches raises the invalid-token
\* error and returns no body, whatever the body and the status are.
C20_HtmlOrNoContentTypeRejected ==
    GotRefreshResponse =>
      LET c == lastOp.replies[2].content_type IN
      (~c.has \/ c.v = <<>> \/ Contains(c.v, TextHtml))
      => /\ lastOp.end = "raise"
         /\ lastOp.exc = "RuntimeError: Invalid player id or XSRF Token"
         /\ lastOp.res = None

\* a refresh response with status 200, Content-Type text/html; charset=utf-8
\* and a JSON object as body was rejected
C20_Witness ==
    /\ GotRefreshResponse
    /\ lastOp.replies[2].status = 200
    /\ lastOp.replies[2].content_type.has
    /\ Len(lastOp.replies[2].content_type.v) > Len(TextHtml)
    /\ Contains(lastOp.replies[2].content_type.v, TextHtml)
    /\ lastOp.replies[2].body.kind = "dict"
    /\ lastOp.end = "raise"
    /\ lastOp.exc = "RuntimeError: Invalid player id or XSRF Token"

\* the last call is a fetch_new_player_matches whose token request was answered
GotTokenResponse ==
    /\ lastOp.op = "fetch_new_player_matches"
    /\ lastOp.replies[1].kind = "ok"

\* the positions of the Set-Cookie headers that hold XSRF-TOKEN=<value>
TokenHeaders(set_cookies) == {i \in 1..Len(set_cookies) : Matches(set_cookies[i])}

\* the decoded value of the token cookie of one header
TokenValue(h) == unquote(group1(h))

\* the token not found error
TokenNotFound == "RuntimeError: Could not find correct cookie property"

\* C21: when a Set-Cookie header of the response to the token request holds
\* XSRF-TOKEN=<value>, whichever header of the response it is, the token taken
\* (and sent in X-XSRF-TOKEN) is the URL-decoded value of such a header; the
\* token not found error is raised exactly when no header holds it.
C21_TokenFromAnyHeader ==
    GotTokenResponse =>
      LET l == lastOp.replies[1].set_cookies IN
      /\ TokenHeaders(l) # {}
         => /\ Len(lastOp.reqs) = 2
            /\ \E i \in TokenHeaders(l) : lastOp.reqs[2].xsrf = Header(TokenValue(l[i]))
      /\ TokenHeaders(l) = {} <=> (lastOp.end = "raise" /\ lastOp.exc = TokenNotFound)

\* the response carried Set-Cookie: XSRF-TOKEN=b and Set-Cookie: s=1, and the
\* token taken was "b, s=1"
C21_Witness ==
    /\ GotTokenResponse
    /\ lastOp.replies[1].set_cookies = <<<<"XSRF-TOKEN=", "b">>, <<"s", "=", "1">>>>
    /\ Len(lastOp.reqs) = 2
    /\ lastOp.reqs[2].xsrf = Header(<<"b", ",", " ", "s", "=", "1">>)

\* C35: the refresh flow does not look at status codes.  Whatever the status
\* of the response to the token GET, a response with a Set-Cookie header that
\* holds XSRF-TOKEN=<value> yields a token and the POST is sent with it; and
\* whatever the status of the refresh response, a response whose Content-Type
\* is not empty and does not contain text/html and whose body is JSON other
\* than null makes fetch_new_player_matches return that body.  With any other
\* status in place of the one received, each response gives the same outcome.
C35_StatusIgnored ==
    /\ GotTokenResponse
       => /\ TokenHeaders(lastOp.replies[1].set_cookies) # {}
             => /\ Len(lastOp.reqs) = 2
                /\ lastOp.reqs[2].xsrf.has
                /\ lastOp.reqs[2].xsrf = Header(get_xsrf_token(lastOp.replies[1]).res)
          /\ \A st \in Statuses :
               get_xsrf_token([lastOp.replies[1] EXCEPT !.status = st])
                 = get_xsrf_token(lastOp.replies[1])
    /\ GotRefreshResponse
       => LET r == lastOp.replies[2] IN
          /\ (/\ r.content_type.has /\ r.content_type.v # <<>>
              /\ ~Contains(r.content_type.v, TextHtml)
              /\ r.body.kind \notin {"notjson", "null"})
             => (lastOp.end = "ok" /\ lastOp.res = r.body)
          /\ \A st \in Statuses :
               LET o == refresh_outcome([r EXCEPT !.status = st]) IN
               lastOp.end = o.end /\ lastOp.exc = o.exc /\ lastOp.res = o.res

\* both responses had status 500: the token b was taken from the first, and
\* the JSON object of the second was returned
C35_Witness ==
    /\ GotRefreshResponse
    /\ lastOp.replies[1].status = 500
    /\ lastOp.replies[1].set_cookies = <<<<"XSRF-TOKEN=", "b">>>>
    /\ lastOp.reqs[2].xsrf = Header(<<"b">>)
    /\ lastOp.replies[2].status = 500
    /\ lastOp.replies[2].content_type.has
    /\ lastOp.replies[2].body.kind = "dict"
    /\ lastOp.end = "ok"
    /\ lastOp.res = lastOp.replies[2].body

\* the last call is a fetch_new_player_matches
RefreshCall == lastOp.op = "fetch_new_player_matches"

\* C22: a fetch_new_player_matches call first sends the token GET; it sends one
\* POST to the refresh path, with the token in X-XSRF-TOKEN, after a token was
\* taken from the response to the GET, and no POST when the token retrieval
\* fails, which ends the call with the error of the retrieval.
C22_TokenBeforeRefresh ==
    RefreshCall =>
      LET csrf == get_xsrf_token(lastOp.replies[1]) IN
      /\ Len(lastOp.reqs) \in {1, 2}
      /\ lastOp.reqs[1].method = "GET"
      /\ lastOp.reqs[1].path = MatchesPath(lastOp.platform, lastOp.id)
      /\ \A i \in 1..Len(lastOp.reqs) : lastOp.reqs[i].method = "POST" => i = 2
      /\ csrf.end = "ok"
         => /\ Len(lastOp.reqs) = 2
            /\ lastOp.reqs[2].method = "POST"
            /\ lastOp.reqs[2].path = FetchPath(lastOp.platform, lastOp.id)
            /\ lastOp.reqs[2].xsrf = Header(csrf.res)
      /\ csrf.end = "raise"
         => /\ Len(lastOp.reqs) = 1
            /\ lastOp.end = "raise" /\ lastOp.exc = csrf.exc

\* the GET was answered with XSRF-TOKEN=a%3D; the POST carried the token a=
C22_Witness ==
    /\ RefreshCall
    /\ lastOp.replies[1].kind = "ok"
    /\ lastOp.replies[1].set_cookies = <<<<"XSRF-TOKEN=", "a", "%3D", ";", " ", "p">>>>
    /\ Len(lastOp.reqs) = 2
    /\ lastOp.reqs[1].method = "GET"
    /\ lastOp.reqs[2].method = "POST"
    /\ lastOp.reqs[2].xsrf = Header(<<"a", "=">>)

\* the i-th reply of the last call is a success whose body is JSON null
NullPayload(i) ==
    lastOp.replies[i].kind = "ok" /\ lastOp.replies[i].body.kind = "null"

\* C25: a successful response whose body is JSON null, for a page of match
\* history, or a JSON object without existence flag, for the existence check,
\* makes the operation raise ValueError after one request for it: the request
\* is the last one of the call and is not made again.
C25_IncompleteBodyFailsAtOnce ==
    /\ (lastOp.op = "get_player_matches" /\ NullPayload(1))
       => /\ lastOp.end = "raise" /\ lastOp.exc = "ValueError" /\ lastOp.res = None
          /\ Len(lastOp.reqs) = 1
    /\ (lastOp.op = "check_player_exists" /\ GotObject
          /\ lastOp.replies[1].body.exists \in {"absent", None}
          /\ lastOp.replies[1].body.Exists \in {"absent", None})
       => /\ lastOp.end = "raise" /\ lastOp.exc = "ValueError" /\ lastOp.res = None
          /\ Len(lastOp.reqs) = 1
    /\ PagesCall
       => \A i \in 1..Len(lastOp.replies) :
            NullPayload(i)
            => /\ lastOp.end = "raise" /\ lastOp.exc = "ValueError"
               /\ Len(lastOp.reqs) = i
               /\ \A j \in 1..Len(lastOp.reqs) :
                    lastOp.reqs[j].page = lastOp.reqs[i].page => j = i

\* check_player_exists received {} with a success status and raised ValueError
\* after its one request
C25_Witness ==
    /\ lastOp.op = "check_player_exists" /\ GotObject
    /\ lastOp.replies[1].body.exists = "absent"
    /\ lastOp.replies[1].body.Exists = "absent"
    /\ lastOp.reqs = <<"api/players/check">>
    /\ lastOp.end = "raise" /\ lastOp.exc = "ValueError"

\* the operations of the service that do not use the cache
ApiOps == {"check_player_exists"} \cup PlayerOps

\* C26: check_player_exists, get_player_matches, get_player_matches_pages and
\* fetch_new_player_matches leave _data, the store file and its temporary file
\* as they are, whatever entries the cache holds (expired and sliding ones
\* included), and every get_player_matches call issues its HTTP request.
\* Checked under SpecApiCache.
C26_ApiLeavesCacheAlone ==
    [][lastOp'.op \in ApiOps
       => /\ mem' = mem /\ store' = store /\ tmp' = tmp
          /\ lastOp'.op = "get_player_matches"
             => lastOp'.reqs = <<PageRequest(lastOp'.platform, lastOp'.id, lastOp'.arg)>>]_vars

\* get_player_matches returned a page while the cache held a sliding entry,
\* which was neither renewed nor evicted
C26_Witness ==
    /\ pc = "exited"
    /\ lastOp.op = "get_player_matches" /\ lastOp.end = "ok"
    /\ Len(lastOp.reqs) = 1
    /\ ItemOf(mem, SearchKey("q1")) = Entry("v1", 1, TRUE, MaxTtl)
    /\ store = mem

----------------------------------------------------------------------------
(* Properties of the transports, checked under SpecTransport *)

\* the last request went through the session with retry (self.client)
ResilientSend == lastOp.op = "send" /\ lastOp.transport = "client"

\* C23: a request through the session with retry whose every response has a
\* status in {429, 500, 502, 503, 504} is sent at most 15 times, the first try
\* included, and ends in the error of exhausted retries (RetryError), raised to
\* the caller; a response with any other status ends the retrying at once.
C23_AtMostFifteenAttempts ==
    ResilientSend =>
      /\ lastOp.only_forcelist
         => /\ lastOp.attempts <= 15
            /\ lastOp.end # "ok"
            /\ lastOp.end = "raise" => lastOp.exc = "RetryError"
      /\ (lastOp.last = "response" /\ lastOp.response.status \notin Forcelist)
         => (lastOp.end = "ok" /\ pc = "running")

\* sixteen attempts were answered with a status of the forcelist before
\* RetryError was raised
C23_Witness ==
    /\ ResilientSend
    /\ lastOp.only_forcelist
    /\ lastOp.attempts = RetryTotal + 1
    /\ lastOp.end = "raise" /\ lastOp.exc = "RetryError"

\* the last request went through the session without retry (_get_no_retry for
\* the token GET, _post_no_retry for the refresh POST)
NoRetrySend == lastOp.op = "send" /\ lastOp.transport = "no_retry_client"

\* C24: a GET or POST through the session without retry is sent once: whatever
\* the status of the response (429 and 5xx included, with or without
\* Retry-After) it is returned to the caller, and a transport error is raised
\* to the caller, without a second attempt.
C24_NoRetrySentOnce ==
    NoRetrySend =>
      /\ lastOp.attempts = 1
      /\ lastOp.last = "none" => (pc = "sending" /\ lastOp.end = "pending")
      /\ lastOp.last = "response" => (pc = "running" /\ lastOp.end = "ok")
      /\ lastOp.last \in {"connect", "read"}
         => (pc = "running" /\ lastOp.end = "raise" /\ lastOp.exc = "ConnectionError")

\* the refresh POST was answered 503 with Retry-After and was not sent again
C24_Witness ==
    /\ NoRetrySend
    /\ lastOp.method = "POST"
    /\ lastOp.response = [status |-> 503, retry_after |-> TRUE]
    /\ lastOp.last = "response"
    /\ lastOp.attempts = 1
    /\ lastOp.end = "ok"

====
